---- MODULE Spec2Model ----
(***************************************************************************)
(* ElectricBoat: the electrical network calculation and validation engine  *)
(* (power.ts, battery.ts, cables.ts, validation.ts, cableStandards.ts).    *)
(* and the two stores of the editor (useProjectStore, useEditorStore).     *)
(*                                                                         *)
(* Numbers.  The engine computes on IEEE doubles.  The model computes on   *)
(* exact rationals [n |-> numerator, d |-> denominator] in lowest terms,   *)
(* with d = 0 for the non-finite doubles: 1/0 is +Infinity, -1/0 is        *)
(* -Infinity, 0/0 is NaN.  Rounding error of the double arithmetic is not  *)
(* modelled; Math.round is.                                                *)
(***************************************************************************)
EXTENDS Integers, Sequences, FiniteSets, TLC

VARIABLES nodes, connections, call, ret, bfs,
          selection, multiSelection, toast, timers, now

\* the state of useEditorStore that the engine and the project store leave alone
editorVars == <<selection, multiSelection, toast, timers, now>>

vars == <<nodes, connections, call, ret, bfs, selection, multiSelection, toast, timers, now>>

\* null, of a selection or a toast
Null == [null |-> TRUE]

----------------------------------------------------------------------------
(* Rational arithmetic standing for the double arithmetic of the engine.   *)

Abs(x) == IF x < 0 THEN -x ELSE x

RECURSIVE GCD(_, _)
GCD(a, b) == IF b = 0 THEN a ELSE GCD(b, a % b)

R(n, d) ==
  IF d = 0
    THEN [n |-> IF n > 0 THEN 1 ELSE IF n < 0 THEN -1 ELSE 0, d |-> 0]
    ELSE LET s == IF d < 0 THEN -1 ELSE 1
             g == GCD(Abs(n), Abs(d))
         IN  [n |-> (s * n) \div g, d |-> (s * d) \div g]

Q(i) == [n |-> i, d |-> 1]

Zero == Q(0)

Infinity == [n |-> 1, d |-> 0]

NaN == [n |-> 0, d |-> 0]

IsNaN(a) == a.n = 0 /\ a.d = 0

IsFinite(a) == a.d # 0

RMul(a, b) == R(a.n * b.n, a.d * b.d)

RDiv(a, b) == R(a.n * b.d, a.d * b.n)

RAdd(a, b) ==
  IF a.d # 0 /\ b.d # 0 THEN R(a.n * b.d + b.n * a.d, a.d * b.d)
  ELSE IF IsNaN(a) \/ IsNaN(b) THEN NaN
  ELSE IF a.d = 0 /\ b.d = 0 THEN (IF a.n = b.n THEN a ELSE NaN)
  ELSE IF a.d = 0 THEN a ELSE b

RNeg(a) == [n |-> -a.n, d |-> a.d]

RSub(a, b) == RAdd(a, RNeg(b))

\* a < b on doubles: false as soon as one side is NaN
RLt(a, b) ==
  /\ ~IsNaN(a)
  /\ ~IsNaN(b)
  /\ IF a.d = 0 /\ b.d = 0 THEN a.n < b.n
     ELSE IF a.d = 0 THEN a.n < 0
     ELSE IF b.d = 0 THEN b.n > 0
     ELSE a.n * b.d < b.n * a.d

REq(a, b) == ~IsNaN(a) /\ ~IsNaN(b) /\ a = b

RLe(a, b) == RLt(a, b) \/ REq(a, b)

RGt(a, b) == RLt(b, a)

RGe(a, b) == RLe(b, a)

\* Math.max(a, b)
RMax(a, b) == IF IsNaN(a) \/ IsNaN(b) THEN NaN ELSE IF RLt(a, b) THEN b ELSE a

\* Math.round(x): the integer nearest to x, halves rounded up
MathRound(a) == IF a.d = 0 THEN a ELSE Q((2 * a.n + a.d) \div (2 * a.d))

\* Math.round(x * 10^k) / 10^k, as the engine rounds its outputs
RoundTo(a, scale) == RDiv(MathRound(RMul(a, Q(scale))), Q(scale))

\* Array.prototype.find: the index of the first element satisfying P, or 0
FindIndex(seq, P(_)) ==
  IF \E i \in 1..Len(seq) : P(seq[i])
    THEN CHOOSE i \in 1..Len(seq) : P(seq[i]) /\ \A j \in 1..(i - 1) : ~P(seq[j])
    ELSE 0

Range(seq) == {seq[i] : i \in 1..Len(seq)}

RECURSIVE SumSeq(_)
SumSeq(seq) == IF seq = <<>> THEN Zero ELSE RAdd(SumSeq(SubSeq(seq, 1, Len(seq) - 1)), seq[Len(seq)])

----------------------------------------------------------------------------
(* Reference data: data/cableStandards.ts                                   *)

CableSpec(section, maxCurrent, fuse) ==
  [sectionMm2 |-> section, maxCurrentA |-> Q(maxCurrent), recommendedFuseA |-> fuse]

cableStandards ==
  << CableSpec(R(1, 2), 3, Q(3)),
     CableSpec(R(3, 4), 6, Q(5)),
     CableSpec(Q(1), 10, R(15, 2)),
     CableSpec(R(3, 2), 15, Q(10)),
     CableSpec(R(5, 2), 20, Q(15)),
     CableSpec(Q(4), 30, Q(25)),
     CableSpec(Q(6), 40, Q(30)),
     CableSpec(Q(10), 60, Q(50)),
     CableSpec(Q(16), 80, Q(60)),
     CableSpec(Q(25), 110, Q(80)),
     CableSpec(Q(35), 140, Q(100)),
     CableSpec(Q(50), 175, Q(150)),
     CableSpec(Q(70), 215, Q(175)),
     CableSpec(Q(95), 265, Q(200)),
     CableSpec(Q(120), 310, Q(250)) >>

COPPER_RESISTIVITY == R(175, 10000)

MAX_VOLTAGE_DROP_PERCENT == 3

\* the margin getRecommendedSection and getRecommendedFuse put on the current
CurrentMargin == R(125, 100)

standardFuseRatings ==
  << Q(1), Q(2), Q(3), Q(5), R(15, 2), Q(10), Q(15), Q(20), Q(25), Q(30), Q(35), Q(40),
     Q(50), Q(60), Q(70), Q(80), Q(100), Q(125), Q(150), Q(175), Q(200), Q(250), Q(300) >>

\* as getRecommendedFuse, but rating the fuse at the bare current
getRecommendedFuse_noMargin(currentA) ==
  LET i == FindIndex(standardFuseRatings, LAMBDA rating : RGe(rating, currentA))
  IN  IF i # 0 THEN standardFuseRatings[i]
      ELSE standardFuseRatings[Len(standardFuseRatings)]

\* as getRecommendedFuse, but falling back to the first rating of the list
getRecommendedFuse_firstFallback(currentA) ==
  LET targetRating == RMul(currentA, CurrentMargin)
      i == FindIndex(standardFuseRatings, LAMBDA rating : RGe(rating, targetRating))
  IN  IF i # 0 THEN standardFuseRatings[i]
      ELSE standardFuseRatings[1]

getRecommendedFuse(currentA) ==
  LET targetRating == RMul(currentA, CurrentMargin)
      i == FindIndex(standardFuseRatings, LAMBDA rating : RGe(rating, targetRating))
  IN  IF i # 0 THEN standardFuseRatings[i]
      ELSE standardFuseRatings[Len(standardFuseRatings)]

----------------------------------------------------------------------------
(* Power and energy: utils/calculations/power.ts                            *)

DEFAULT_SUN_HOURS == 5

DEFAULT_SOLAR_EFFICIENCY == R(7, 10)

DEFAULT_ALTERNATOR_EFFICIENCY == R(85, 100)

\* 'f' in node && node.f !== undefined
Has(node, f) == f \in DOMAIN node

getNodeCurrent(node) ==
  IF node.type # "consumer" THEN Zero
  ELSE IF Has(node, "currentA") THEN node.currentA
  ELSE IF Has(node, "powerW") THEN RDiv(node.powerW, Q(node.voltage))
  ELSE Zero

getNodePower(node) ==
  IF node.type # "consumer" THEN Zero
  ELSE IF Has(node, "powerW") THEN node.powerW
  ELSE IF Has(node, "currentA") THEN RMul(node.currentA, Q(node.voltage))
  ELSE Zero

getNodeDailyAh(node) ==
  IF node.type # "consumer" THEN Zero
  ELSE LET current == getNodeCurrent(node)
           dailyHours == IF Has(node, "dailyHours") THEN node.dailyHours ELSE Zero
           dutyCycle == IF Has(node, "dutyCycle") THEN node.dutyCycle ELSE Q(1)
       IN  RMul(RMul(current, dailyHours), dutyCycle)

filterNodesByType(ns, type) == SelectSeq(ns, LAMBDA n : n.type = type)

\* nodes.filter(...).reduce((sum, n) => sum + f(n), 0)
SumOver(ns, f(_)) == SumSeq([i \in 1..Len(ns) |-> f(ns[i])])

\* as getTotalDailyConsumptionAh, but stopping at the first node that is no consumer
RECURSIVE getTotalDailyConsumptionAh_prefix(_)
getTotalDailyConsumptionAh_prefix(ns) ==
  IF ns = <<>> \/ Head(ns).type # "consumer" THEN Zero
  ELSE RAdd(getNodeDailyAh(Head(ns)), getTotalDailyConsumptionAh_prefix(Tail(ns)))

getTotalDailyConsumptionAh(ns) == SumOver(filterNodesByType(ns, "consumer"), getNodeDailyAh)

getTotalInstantPowerW(ns) == SumOver(filterNodesByType(ns, "consumer"), getNodePower)

getSolarDailyAh(node, sunHours) ==
  IF node.type # "solar" THEN Zero
  ELSE LET maxPowerW == IF Has(node, "maxPowerW") THEN node.maxPowerW ELSE Zero
           efficiency == IF Has(node, "efficiency") THEN node.efficiency
                         ELSE DEFAULT_SOLAR_EFFICIENCY
           quantity == IF Has(node, "quantity") THEN Q(node.quantity) ELSE Q(1)
       IN  RDiv(RMul(RMul(RMul(maxPowerW, quantity), sunHours), efficiency),
                Q(node.voltage))

getTotalSolarDailyAh(ns, sunHours) ==
  SumOver(filterNodesByType(ns, "solar"), LAMBDA n : getSolarDailyAh(n, sunHours))

getAlternatorDailyAh(node) ==
  IF node.type # "alternator" THEN Zero
  ELSE LET maxPowerW == IF Has(node, "maxPowerW") THEN node.maxPowerW ELSE Zero
           efficiency == IF Has(node, "efficiency") THEN node.efficiency
                         ELSE DEFAULT_ALTERNATOR_EFFICIENCY
           engineHours == IF Has(node, "engineHoursPerDay") THEN node.engineHoursPerDay
                          ELSE Zero
           maxCurrent == RDiv(RMul(maxPowerW, efficiency), Q(node.voltage))
       IN  RMul(maxCurrent, engineHours)

getTotalAlternatorDailyAh(ns) ==
  SumOver(filterNodesByType(ns, "alternator"), getAlternatorDailyAh)

\* hoursPlugged defaults to 0 at the call site that omits it
getChargerDailyAh(node, hoursPlugged) ==
  IF node.type # "charger" THEN Zero
  ELSE LET maxPowerW == IF Has(node, "maxPowerW") THEN node.maxPowerW ELSE Zero
           maxCurrent == RDiv(maxPowerW, Q(node.voltage))
       IN  RMul(maxCurrent, hoursPlugged)

getTotalDailyProductionAh(ns, sunHours) ==
  LET solar == getTotalSolarDailyAh(ns, sunHours)
      alternator == getTotalAlternatorDailyAh(ns)
  IN  RAdd(solar, alternator)

getDailyBalanceAh(ns, sunHours) ==
  LET production == getTotalDailyProductionAh(ns, sunHours)
      consumption == getTotalDailyConsumptionAh(ns)
  IN  RSub(production, consumption)

----------------------------------------------------------------------------
(* Cable sizing and analysis: utils/calculations/cables.ts                  *)

calculateVoltageDrop(currentA, lengthM, sectionMm2) ==
  RDiv(RMul(RMul(RMul(Q(2), COPPER_RESISTIVITY), lengthM), currentA), sectionMm2)

calculateVoltageDropPercent(currentA, lengthM, sectionMm2, voltage) ==
  LET dropVolts == calculateVoltageDrop(currentA, lengthM, sectionMm2)
  IN  RMul(RDiv(dropVolts, voltage), Q(100))

calculatePowerLoss(currentA, lengthM, sectionMm2) ==
  LET resistance == RDiv(RMul(RMul(Q(2), COPPER_RESISTIVITY), lengthM), sectionMm2)
  IN  RMul(RMul(currentA, currentA), resistance)

calculateMinSection(currentA, lengthM, voltage, maxDropPercent) ==
  LET maxDropVolts == RMul(voltage, RDiv(maxDropPercent, Q(100)))
  IN  IF RLe(maxDropVolts, Zero) THEN Infinity
      ELSE RDiv(RMul(RMul(RMul(Q(2), COPPER_RESISTIVITY), lengthM), currentA), maxDropVolts)

\* sectionForCurrent?.sectionMm2 ?? 0.5
SmallestSectionFallback == R(1, 2)

\* as getRecommendedSection, but sizing for the bare current (no 25 % margin)
getRecommendedSection_noMargin(currentA, lengthM, voltage, maxDropPercent) ==
  LET minSectionForDrop == calculateMinSection(currentA, lengthM, voltage, maxDropPercent)
      iCurrent == FindIndex(cableStandards, LAMBDA s : RGe(s.maxCurrentA, currentA))
      minSectionForCurrent == IF iCurrent # 0 THEN cableStandards[iCurrent].sectionMm2
                              ELSE SmallestSectionFallback
      minSection == RMax(minSectionForDrop, minSectionForCurrent)
      iStandard == FindIndex(cableStandards, LAMBDA s : RGe(s.sectionMm2, minSection))
  IN  IF iStandard # 0 THEN cableStandards[iStandard].sectionMm2
      ELSE cableStandards[Len(cableStandards)].sectionMm2

getRecommendedSection(currentA, lengthM, voltage, maxDropPercent) ==
  LET minSectionForDrop == calculateMinSection(currentA, lengthM, voltage, maxDropPercent)
      requiredCurrent == RMul(currentA, CurrentMargin)
      iCurrent == FindIndex(cableStandards, LAMBDA s : RGe(s.maxCurrentA, requiredCurrent))
      minSectionForCurrent == IF iCurrent # 0 THEN cableStandards[iCurrent].sectionMm2
                              ELSE SmallestSectionFallback
      minSection == RMax(minSectionForDrop, minSectionForCurrent)
      iStandard == FindIndex(cableStandards, LAMBDA s : RGe(s.sectionMm2, minSection))
  IN  IF iStandard # 0 THEN cableStandards[iStandard].sectionMm2
      ELSE cableStandards[Len(cableStandards)].sectionMm2

isCableOversized(connection, currentA, voltage) ==
  LET recommended == getRecommendedSection(currentA, connection.lengthM, voltage,
                                           Q(MAX_VOLTAGE_DROP_PERCENT))
  IN  RGt(connection.sectionMm2, RMul(recommended, R(3, 2)))

\* the current analyzeCable takes the cable to carry (before any rounding)
inferCurrent(fromNode, toNode) ==
  IF fromNode.type = "consumer" THEN getNodeCurrent(fromNode)
  ELSE IF toNode.type = "consumer" THEN getNodeCurrent(toNode)
  ELSE IF fromNode.type = "battery" /\ Has(fromNode, "capacityAh")
         THEN RDiv(fromNode.capacityAh, Q(5))
  ELSE Zero

\* as ratedMaxCurrent, but rating an unlisted section as the next listed one above it
ratedMaxCurrent_nextRowUp(sectionMm2) ==
  LET i == FindIndex(cableStandards, LAMBDA s : RGe(s.sectionMm2, sectionMm2))
  IN  IF i # 0 THEN cableStandards[i].maxCurrentA ELSE Zero

\* cableSpec?.maxCurrentA ?? 0
ratedMaxCurrent(sectionMm2) ==
  LET i == FindIndex(cableStandards, LAMBDA s : s.sectionMm2 = sectionMm2)
  IN  IF i # 0 THEN cableStandards[i].maxCurrentA ELSE Zero

\* as cableStatus, but testing the voltage drop before the overload
cableStatus_dropFirst(currentA, voltageDropPercent, sectionMm2) ==
  IF RGt(voltageDropPercent, Q(MAX_VOLTAGE_DROP_PERCENT)) THEN "warning"
  ELSE IF RGt(currentA, ratedMaxCurrent(sectionMm2)) THEN "overload"
  ELSE "ok"

cableStatus(currentA, voltageDropPercent, sectionMm2) ==
  IF RGt(currentA, ratedMaxCurrent(sectionMm2)) THEN "overload"
  ELSE IF RGt(voltageDropPercent, Q(MAX_VOLTAGE_DROP_PERCENT)) THEN "warning"
  ELSE "ok"

analyzeCable(connection, fromNode, toNode) ==
  LET currentA == inferCurrent(fromNode, toNode)
      voltage == Q(fromNode.voltage)
      voltageDrop == calculateVoltageDrop(currentA, connection.lengthM, connection.sectionMm2)
      voltageDropPercent == RMul(RDiv(voltageDrop, voltage), Q(100))
      powerLossW == calculatePowerLoss(currentA, connection.lengthM, connection.sectionMm2)
      recommendedSection == getRecommendedSection(currentA, connection.lengthM, voltage,
                                                  Q(MAX_VOLTAGE_DROP_PERCENT))
  IN  [ connectionId |-> connection.id,
        currentA |-> RoundTo(currentA, 10),
        voltageDrop |-> RoundTo(voltageDrop, 1000),
        voltageDropPercent |-> RoundTo(voltageDropPercent, 100),
        powerLossW |-> RoundTo(powerLossW, 10),
        recommendedSectionMm2 |-> recommendedSection,
        status |-> cableStatus(currentA, voltageDropPercent, connection.sectionMm2) ]

\* FuseRecommendationPanel.fuseInfos, for one connection: analysis is the connection's
\* CableAnalysis, or Null when analysisMap has none (analysis?.currentA ?? 0)
fuseInfo(conn, analysis) ==
  LET maxCableCapacity == ratedMaxCurrent(conn.sectionMm2)
      current == IF analysis = Null THEN Zero ELSE analysis.currentA
  IN  [ recommendedFuse |-> getRecommendedFuse(current),
        maxCableCapacity |-> maxCableCapacity,
        status |-> IF RGt(current, RMul(maxCableCapacity, R(8, 10))) THEN "warning"
                   ELSE IF RLt(current, RMul(maxCableCapacity, R(3, 10)))
                           /\ RGt(conn.sectionMm2, R(3, 2)) THEN "oversized"
                   ELSE "ok" ]

\* new Map(nodes.map(n => [n.id, n])).get(id): the last node carrying the id
nodeMapGet(ns, id) ==
  LET hits == {i \in 1..Len(ns) : ns[i].id = id}
  IN  IF hits = {} THEN <<>> ELSE <<ns[CHOOSE i \in hits : \A j \in hits : j <= i]>>

\* as analyzeAllCables, but leaving out the connections with a missing endpoint
analyzeAllCables_skipDangling(conns, ns) ==
  LET wired == SelectSeq(conns, LAMBDA conn : nodeMapGet(ns, conn.fromNodeId) # <<>>
                                              /\ nodeMapGet(ns, conn.toNodeId) # <<>>)
  IN  [ k \in 1..Len(wired) |->
          analyzeCable(wired[k], nodeMapGet(ns, wired[k].fromNodeId)[1],
                       nodeMapGet(ns, wired[k].toNodeId)[1]) ]

analyzeAllCables(conns, ns) ==
  [ k \in 1..Len(conns) |->
      LET conn == conns[k]
          fromNode == nodeMapGet(ns, conn.fromNodeId)
          toNode == nodeMapGet(ns, conn.toNodeId)
      IN  IF fromNode = <<>> \/ toNode = <<>>
            THEN [ connectionId |-> conn.id,
                   currentA |-> Zero,
                   voltageDrop |-> Zero,
                   voltageDropPercent |-> Zero,
                   powerLossW |-> Zero,
                   recommendedSectionMm2 |-> R(1, 2),
                   status |-> "ok" ]
            ELSE analyzeCable(conn, fromNode[1], toNode[1]) ]

----------------------------------------------------------------------------
(* Battery sizing: utils/calculations/battery.ts                            *)

DOD_BY_CHEMISTRY ==
  [ lead |-> R(1, 2), agm |-> R(1, 2), gel |-> R(1, 2),
    lifepo4 |-> R(4, 5), lithium |-> R(4, 5) ]

DEFAULT_DAYS_AUTONOMY == 2

\* as batteryCapacityTerm, but multiplying by the quantity in series too
batteryCapacityTerm_seriesScaled(n) ==
  IF Has(n, "capacityAh")
    THEN LET quantity == IF Has(n, "quantity") THEN Q(n.quantity) ELSE Q(1)
         IN  RMul(n.capacityAh, quantity)
    ELSE Zero

batteryCapacityTerm(n) ==
  IF Has(n, "capacityAh")
    THEN LET quantity == IF Has(n, "quantity") THEN Q(n.quantity) ELSE Q(1)
             config == IF "configuration" \in DOMAIN n THEN n.configuration ELSE "parallel"
         IN  IF config = "parallel" THEN RMul(n.capacityAh, quantity) ELSE n.capacityAh
    ELSE Zero

getTotalBatteryCapacityAh(ns) ==
  SumOver(filterNodesByType(ns, "battery"), batteryCapacityTerm)

\* Object.entries(capacityByChemistry): the chemistries in order of first insertion
RECURSIVE chemistryOrder(_)
chemistryOrder(bats) ==
  IF bats = <<>> THEN <<>>
  ELSE LET before == chemistryOrder(SubSeq(bats, 1, Len(bats) - 1))
           bat == bats[Len(bats)]
       IN  IF Has(bat, "chemistry") /\ Has(bat, "capacityAh")
              /\ bat.chemistry \notin Range(before)
             THEN Append(before, bat.chemistry)
             ELSE before

capacityByChemistry(bats, chemistry) ==
  SumOver(SelectSeq(bats, LAMBDA b : Has(b, "chemistry") /\ Has(b, "capacityAh")
                                      /\ b.chemistry = chemistry),
          LAMBDA b : RMul(b.capacityAh, IF Has(b, "quantity") THEN Q(b.quantity) ELSE Q(1)))

RECURSIVE dominantScan(_, _, _, _)
dominantScan(bats, order, maxCapacity, dominantChemistry) ==
  IF order = <<>> THEN dominantChemistry
  ELSE LET capacity == capacityByChemistry(bats, Head(order))
       IN  IF RGt(capacity, maxCapacity)
             THEN dominantScan(bats, Tail(order), capacity, Head(order))
             ELSE dominantScan(bats, Tail(order), maxCapacity, dominantChemistry)

getDominantBatteryChemistry(ns) ==
  LET batteries == filterNodesByType(ns, "battery")
  IN  IF Len(batteries) = 0 THEN "lead"
      ELSE dominantScan(batteries, chemistryOrder(batteries), Zero, "lead")

getEffectiveDoD(ns) == DOD_BY_CHEMISTRY[getDominantBatteryChemistry(ns)]

getUsableBatteryCapacityAh(ns) ==
  RMul(getTotalBatteryCapacityAh(ns), getEffectiveDoD(ns))

getRequiredBatteryCapacityAh(dailyConsumptionAh, daysAutonomy, depthOfDischarge) ==
  IF RLe(depthOfDischarge, Zero) THEN Infinity
  ELSE RDiv(RMul(dailyConsumptionAh, daysAutonomy), depthOfDischarge)

\* as getEstimatedAutonomyDays, but dividing without the test on the consumption
getEstimatedAutonomyDays_unguarded(usableCapacityAh, dailyConsumptionAh) ==
  RDiv(usableCapacityAh, dailyConsumptionAh)

getEstimatedAutonomyDays(usableCapacityAh, dailyConsumptionAh) ==
  IF RLe(dailyConsumptionAh, Zero) THEN Infinity
  ELSE RDiv(usableCapacityAh, dailyConsumptionAh)

getEstimatedAutonomyDaysFromNodes(ns) ==
  getEstimatedAutonomyDays(getUsableBatteryCapacityAh(ns), getTotalDailyConsumptionAh(ns))

\* as getBatteryStatus, but with both thresholds strict
getBatteryStatus_strict(ns, requiredAutonomyDays) ==
  LET estimatedAutonomy == getEstimatedAutonomyDaysFromNodes(ns)
  IN  IF RGt(estimatedAutonomy, requiredAutonomyDays) THEN "ok"
      ELSE IF RGt(estimatedAutonomy, RMul(requiredAutonomyDays, R(1, 2))) THEN "warning"
      ELSE "critical"

getBatteryStatus(ns, requiredAutonomyDays) ==
  LET estimatedAutonomy == getEstimatedAutonomyDaysFromNodes(ns)
  IN  IF RGe(estimatedAutonomy, requiredAutonomyDays) THEN "ok"
      ELSE IF RGe(estimatedAutonomy, RMul(requiredAutonomyDays, R(1, 2))) THEN "warning"
      ELSE "critical"

----------------------------------------------------------------------------
(* Circuit validation: utils/calculations/validation.ts                     *)
(* Findings carry their type tag, nodeIds and connectionId; the text of    *)
(* the message is kept only where it tells two findings apart.             *)

\* as checkVoltageMismatch, but tagging the error with the ids in reverse order
checkVoltageMismatch_swappedIds(ns, conns) ==
  LET hit(conn) ==
        LET fromNode == nodeMapGet(ns, conn.fromNodeId)
            toNode == nodeMapGet(ns, conn.toNodeId)
        IN  fromNode # <<>> /\ toNode # <<>> /\ fromNode[1].voltage # toNode[1].voltage
      error(conn) ==
        [ type |-> "voltage_mismatch",
          nodeIds |-> << nodeMapGet(ns, conn.toNodeId)[1].id,
                         nodeMapGet(ns, conn.fromNodeId)[1].id >>,
          connectionId |-> conn.id ]
      bad == SelectSeq(conns, hit)
  IN  [k \in 1..Len(bad) |-> error(bad[k])]

checkVoltageMismatch(ns, conns) ==
  LET hit(conn) ==
        LET fromNode == nodeMapGet(ns, conn.fromNodeId)
            toNode == nodeMapGet(ns, conn.toNodeId)
        IN  fromNode # <<>> /\ toNode # <<>> /\ fromNode[1].voltage # toNode[1].voltage
      error(conn) ==
        [ type |-> "voltage_mismatch",
          nodeIds |-> << nodeMapGet(ns, conn.fromNodeId)[1].id,
                         nodeMapGet(ns, conn.toNodeId)[1].id >>,
          connectionId |-> conn.id ]
      bad == SelectSeq(conns, hit)
  IN  [k \in 1..Len(bad) |-> error(bad[k])]

SoloTypes == {"bus", "switch", "fuse"}

\* as checkDisconnectedNodes, but counting a node as connected only by fromNodeId
checkDisconnectedNodes_fromOnly(ns, conns) ==
  LET connectedNodeIds == {conns[k].fromNodeId : k \in 1..Len(conns)}
      lone == SelectSeq(ns, LAMBDA node : node.type \notin SoloTypes
                                           /\ node.id \notin connectedNodeIds)
  IN  [k \in 1..Len(lone) |-> [type |-> "voltage_drop", nodeIds |-> <<lone[k].id>>]]

checkDisconnectedNodes(ns, conns) ==
  LET connectedNodeIds == {conns[k].fromNodeId : k \in 1..Len(conns)}
                            \cup {conns[k].toNodeId : k \in 1..Len(conns)}
      lone == SelectSeq(ns, LAMBDA node : node.type \notin SoloTypes
                                           /\ node.id \notin connectedNodeIds)
  IN  [k \in 1..Len(lone) |-> [type |-> "voltage_drop", nodeIds |-> <<lone[k].id>>]]

\* as overcurrentErrors, but raising the error on a 'warning' analysis as well
overcurrentErrors_alsoWarning(analyses) ==
  LET over == SelectSeq(analyses, LAMBDA a : a.status \in {"overload", "warning"})
  IN  [k \in 1..Len(over) |-> [type |-> "overcurrent", connectionId |-> over[k].connectionId]]

\* the findings of the two loops over cableAnalyses, in the order they are pushed
overcurrentErrors(analyses) ==
  LET over == SelectSeq(analyses, LAMBDA a : a.status = "overload")
  IN  [k \in 1..Len(over) |-> [type |-> "overcurrent", connectionId |-> over[k].connectionId]]

\* as cableWarnings, but reporting no undersized cable on an overloaded one
RECURSIVE cableWarnings_skipOverload(_, _)
cableWarnings_skipOverload(analyses, conns) ==
  IF analyses = <<>> THEN <<>>
  ELSE LET analysis == Head(analyses)
           drop == IF analysis.status = "warning"
                     THEN << [type |-> "voltage_drop", connectionId |-> analysis.connectionId] >>
                     ELSE <<>>
           iConn == FindIndex(conns, LAMBDA c : c.id = analysis.connectionId)
           under == IF /\ analysis.status # "overload"
                       /\ iConn # 0
                       /\ RLt(conns[iConn].sectionMm2, analysis.recommendedSectionMm2)
                      THEN << [type |-> "undersized_cable",
                               connectionId |-> analysis.connectionId] >>
                      ELSE <<>>
       IN  drop \o under \o cableWarnings_skipOverload(Tail(analyses), conns)

RECURSIVE cableWarnings(_, _)
cableWarnings(analyses, conns) ==
  IF analyses = <<>> THEN <<>>
  ELSE LET analysis == Head(analyses)
           drop == IF analysis.status = "warning"
                     THEN << [type |-> "voltage_drop", connectionId |-> analysis.connectionId] >>
                     ELSE <<>>
           iConn == FindIndex(conns, LAMBDA c : c.id = analysis.connectionId)
           under == IF /\ RGt(analysis.recommendedSectionMm2, Zero)
                       /\ iConn # 0
                       /\ RLt(conns[iConn].sectionMm2, analysis.recommendedSectionMm2)
                      THEN << [type |-> "undersized_cable",
                               connectionId |-> analysis.connectionId] >>
                      ELSE <<>>
       IN  drop \o under \o cableWarnings(Tail(analyses), conns)

UnbalancedRatio == R(8, 10)

\* as validateCircuit, but accepting any source-type node in place of a battery
validateCircuit_anySource(ns, conns) ==
  LET hasBattery == \E i \in 1..Len(ns) :
                      ns[i].type \in {"battery", "solar", "alternator", "charger"}
      noSource == IF ~hasBattery THEN << [type |-> "no_source"] >> ELSE <<>>
      voltageErrors == checkVoltageMismatch(ns, conns)
      disconnectedWarnings == checkDisconnectedNodes(ns, conns)
      cableAnalyses == analyzeAllCables(conns, ns)
      batteryStatus == getBatteryStatus(ns, Q(DEFAULT_DAYS_AUTONOMY))
      lowBattery == IF batteryStatus = "critical"
                      THEN << [type |-> "low_battery", message |-> "insuffisante"] >>
                    ELSE IF batteryStatus = "warning"
                      THEN << [type |-> "low_battery", message |-> "limitee"] >>
                    ELSE <<>>
      dailyConsumption == getTotalDailyConsumptionAh(ns)
      dailyProduction == getTotalDailyProductionAh(ns, Q(DEFAULT_SUN_HOURS))
      unbalanced == IF /\ RGt(dailyProduction, Zero)
                       /\ RGt(dailyConsumption, Zero)
                       /\ RLt(RDiv(dailyProduction, dailyConsumption), UnbalancedRatio)
                      THEN << [type |-> "unbalanced"] >>
                      ELSE <<>>
      errors == noSource \o voltageErrors \o overcurrentErrors(cableAnalyses)
      warnings == disconnectedWarnings \o cableWarnings(cableAnalyses, conns)
                    \o lowBattery \o unbalanced
  IN  [isValid |-> Len(errors) = 0, errors |-> errors, warnings |-> warnings]

\* as validateCircuit, but warning of an imbalance at a ratio of exactly 0.8 too
validateCircuit_ratioInclusive(ns, conns) ==
  LET hasBattery == \E i \in 1..Len(ns) : ns[i].type = "battery"
      noSource == IF ~hasBattery THEN << [type |-> "no_source"] >> ELSE <<>>
      voltageErrors == checkVoltageMismatch(ns, conns)
      disconnectedWarnings == checkDisconnectedNodes(ns, conns)
      cableAnalyses == analyzeAllCables(conns, ns)
      batteryStatus == getBatteryStatus(ns, Q(DEFAULT_DAYS_AUTONOMY))
      lowBattery == IF batteryStatus = "critical"
                      THEN << [type |-> "low_battery", message |-> "insuffisante"] >>
                    ELSE IF batteryStatus = "warning"
                      THEN << [type |-> "low_battery", message |-> "limitee"] >>
                    ELSE <<>>
      dailyConsumption == getTotalDailyConsumptionAh(ns)
      dailyProduction == getTotalDailyProductionAh(ns, Q(DEFAULT_SUN_HOURS))
      unbalanced == IF /\ RGt(dailyProduction, Zero)
                       /\ RGt(dailyConsumption, Zero)
                       /\ RLe(RDiv(dailyProduction, dailyConsumption), UnbalancedRatio)
                      THEN << [type |-> "unbalanced"] >>
                      ELSE <<>>
      errors == noSource \o voltageErrors \o overcurrentErrors(cableAnalyses)
      warnings == disconnectedWarnings \o cableWarnings(cableAnalyses, conns)
                    \o lowBattery \o unbalanced
  IN  [isValid |-> Len(errors) = 0, errors |-> errors, warnings |-> warnings]

validateCircuit(ns, conns) ==
  LET hasBattery == \E i \in 1..Len(ns) : ns[i].type = "battery"
      noSource == IF ~hasBattery THEN << [type |-> "no_source"] >> ELSE <<>>
      voltageErrors == checkVoltageMismatch(ns, conns)
      disconnectedWarnings == checkDisconnectedNodes(ns, conns)
      cableAnalyses == analyzeAllCables(conns, ns)
      batteryStatus == getBatteryStatus(ns, Q(DEFAULT_DAYS_AUTONOMY))
      lowBattery == IF batteryStatus = "critical"
                      THEN << [type |-> "low_battery", message |-> "insuffisante"] >>
                    ELSE IF batteryStatus = "warning"
                      THEN << [type |-> "low_battery", message |-> "limitee"] >>
                    ELSE <<>>
      dailyConsumption == getTotalDailyConsumptionAh(ns)
      dailyProduction == getTotalDailyProductionAh(ns, Q(DEFAULT_SUN_HOURS))
      unbalanced == IF /\ RGt(dailyProduction, Zero)
                       /\ RGt(dailyConsumption, Zero)
                       /\ RLt(RDiv(dailyProduction, dailyConsumption), UnbalancedRatio)
                      THEN << [type |-> "unbalanced"] >>
                      ELSE <<>>
      errors == noSource \o voltageErrors \o overcurrentErrors(cableAnalyses)
      warnings == disconnectedWarnings \o cableWarnings(cableAnalyses, conns)
                    \o lowBattery \o unbalanced
  IN  [isValid |-> Len(errors) = 0, errors |-> errors, warnings |-> warnings]

SourceTypes == {"battery", "solar", "alternator", "charger"}

\* as neighbourPushes, but following a connection only from its from-side
RECURSIVE neighbourPushes_fromOnly(_, _, _)
neighbourPushes_fromOnly(conns, currentId, visited) ==
  IF conns = <<>> THEN <<>>
  ELSE LET conn == Head(conns)
           a == IF conn.fromNodeId = currentId /\ conn.toNodeId \notin visited
                  THEN <<conn.toNodeId>> ELSE <<>>
       IN  a \o neighbourPushes_fromOnly(Tail(conns), currentId, visited)

\* as neighbourPushes, but keeping one neighbour per node: the one of the last
\* connection that touches it (an adjacency map keyed by node id, overwritten)
neighbourPushes_lastOnly(conns, currentId, visited) ==
  LET touching == SelectSeq(conns, LAMBDA c : c.fromNodeId = currentId \/ c.toNodeId = currentId)
      last == IF touching = <<>> THEN <<>> ELSE <<touching[Len(touching)]>>
  IN  IF last = <<>> THEN <<>>
      ELSE LET other == IF last[1].fromNodeId = currentId THEN last[1].toNodeId
                        ELSE last[1].fromNodeId
           IN  IF other \notin visited THEN <<other>> ELSE <<>>

\* the pushes of `for (const conn of connections)` for the node just visited
RECURSIVE neighbourPushes(_, _, _)
neighbourPushes(conns, currentId, visited) ==
  IF conns = <<>> THEN <<>>
  ELSE LET conn == Head(conns)
           a == IF conn.fromNodeId = currentId /\ conn.toNodeId \notin visited
                  THEN <<conn.toNodeId>> ELSE <<>>
           b == IF conn.toNodeId = currentId /\ conn.fromNodeId \notin visited
                  THEN <<conn.fromNodeId>> ELSE <<>>
       IN  a \o b \o neighbourPushes(Tail(conns), currentId, visited)

\* one pass through the body of `while (queue.length > 0)`
bfsIteration(st, ns, conns) ==
  LET currentId == Head(st.queue)
      rest == Tail(st.queue)
      iNode == FindIndex(ns, LAMBDA n : n.id = currentId)
      visited == st.visited \cup {currentId}
  IN  IF currentId \in st.visited
        THEN [queue |-> rest, visited |-> st.visited, returned |-> FALSE]
      ELSE IF iNode = 0
        THEN [queue |-> rest, visited |-> visited, returned |-> FALSE]
      ELSE IF ns[iNode].type \in SourceTypes
        THEN [queue |-> rest, visited |-> visited, returned |-> TRUE]
      ELSE [queue |-> rest \o neighbourPushes(conns, currentId, visited),
            visited |-> visited, returned |-> FALSE]

RECURSIVE bfsLoop(_, _, _)
bfsLoop(st, ns, conns) ==
  IF Len(st.queue) = 0 THEN FALSE
  ELSE LET nx == bfsIteration(st, ns, conns)
       IN  IF nx.returned THEN TRUE ELSE bfsLoop(nx, ns, conns)

isNodeConnectedToSource(nodeId, ns, conns) ==
  bfsLoop([queue |-> <<nodeId>>, visited |-> {}, returned |-> FALSE], ns, conns)

findUnpoweredConsumers(ns, conns) ==
  SelectSeq(filterNodesByType(ns, "consumer"),
            LAMBDA n : ~isNodeConnectedToSource(n.id, ns, conns))

----------------------------------------------------------------------------
(* The caller: the editor supplies node and connection arrays and invokes  *)
(* the engine on them.  `call` is the invocation last made, `ret` its      *)
(* result, `bfs` the loop state of isNodeConnectedToSource.                *)

MaxNodes == 3

MaxConns == 2

MaxArr == 3

NoCall == [op |-> "none"]

NoRet == [none |-> TRUE]

BfsIdle == [pc |-> "idle"]

Consumer(v, fields) == [type |-> "consumer", voltage |-> v] @@ fields

\* well-typed nodes of the kinds the claims distinguish
Lamp12 == Consumer(12, [powerW |-> Q(120), dailyHours |-> Q(4), dutyCycle |-> R(1, 2)])

Pump24 == Consumer(24, [currentA |-> Q(5), dailyHours |-> Q(2), dutyCycle |-> Q(1)])

Battery12 == [type |-> "battery", voltage |-> 12, capacityAh |-> Q(100), chemistry |-> "lead"]

Solar12 == [type |-> "solar", voltage |-> 12, maxPowerW |-> Q(100)]

Bus12 == [type |-> "bus", voltage |-> 12, maxCurrentA |-> Q(100)]

GraphNodes == {Lamp12, Pump24, Battery12, Solar12, Bus12}

GraphCables == {[sectionMm2 |-> R(5, 2), lengthM |-> Q(5)]}

NodeIds == 1..MaxNodes

Init ==
  /\ nodes = <<>>
  /\ connections = <<>>
  /\ call = NoCall
  /\ ret = NoRet
  /\ bfs = BfsIdle
  /\ selection = Null
  /\ multiSelection = <<>>
  /\ toast = Null
  /\ timers = <<>>
  /\ now = 0

\* the editor adds a node; results derived from the old graph are dropped
AddNode ==
  /\ bfs.pc # "loop"
  /\ Len(nodes) < MaxNodes
  /\ \E t \in GraphNodes : nodes' = Append(nodes, [id |-> Len(nodes) + 1] @@ t)
  /\ call' = NoCall /\ ret' = NoRet /\ bfs' = BfsIdle
  /\ UNCHANGED connections
  /\ UNCHANGED editorVars

\* the editor adds a cable; its endpoints need not (yet) exist in `nodes`
AddConnection ==
  /\ bfs.pc # "loop"
  /\ Len(connections) < MaxConns
  /\ \E f \in NodeIds, t \in NodeIds, c \in GraphCables :
       connections' = Append(connections,
                             [id |-> Len(connections) + 1, fromNodeId |-> f, toNodeId |-> t] @@ c)
  /\ call' = NoCall /\ ret' = NoRet /\ bfs' = BfsIdle
  /\ UNCHANGED nodes
  /\ UNCHANGED editorVars

CallValidateCircuit ==
  /\ bfs.pc # "loop"
  /\ call' = [op |-> "validateCircuit"]
  /\ ret' = validateCircuit(nodes, connections)
  /\ bfs' = BfsIdle
  /\ UNCHANGED <<nodes, connections>>
  /\ UNCHANGED editorVars

CallFindUnpoweredConsumers ==
  /\ bfs.pc # "loop"
  /\ call' = [op |-> "findUnpoweredConsumers"]
  /\ ret' = findUnpoweredConsumers(nodes, connections)
  /\ bfs' = BfsIdle
  /\ UNCHANGED <<nodes, connections>>
  /\ UNCHANGED editorVars

\* isNodeConnectedToSource(nodeId, nodes, connections), entered
BfsStart ==
  /\ bfs.pc # "loop"
  /\ \E id \in NodeIds :
       /\ call' = [op |-> "isNodeConnectedToSource", nodeId |-> id]
       /\ bfs' = [pc |-> "loop", queue |-> <<id>>, visited |-> {}, iterations |-> 0]
  /\ ret' = NoRet
  /\ UNCHANGED <<nodes, connections>>
  /\ UNCHANGED editorVars

\* the loop test and, when it passes, one pass through the loop body
BfsStep ==
  /\ bfs.pc = "loop"
  /\ IF Len(bfs.queue) = 0
       THEN /\ bfs' = [bfs EXCEPT !.pc = "done"]
            /\ ret' = FALSE
       ELSE LET nx == bfsIteration(bfs, nodes, connections)
            IN  /\ bfs' = [pc |-> IF nx.returned THEN "done" ELSE "loop",
                           queue |-> nx.queue, visited |-> nx.visited,
                           iterations |-> bfs.iterations + 1]
                /\ ret' = IF nx.returned THEN TRUE ELSE NoRet
  /\ UNCHANGED <<nodes, connections, call>>
  /\ UNCHANGED editorVars

Next ==
  \/ AddNode
  \/ AddConnection
  \/ CallValidateCircuit
  \/ CallFindUnpoweredConsumers
  \/ BfsStart
  \/ BfsStep

Spec == Init /\ [][Next]_vars

----------------------------------------------------------------------------
(* The calculators called on their own, on arguments of the caller's       *)
(* choice.                                                                  *)

Currents == {Q(0), Q(1), Q(10), Q(16), Q(20), Q(30), Q(100), Q(248), Q(260), Q(400)}

Lengths == {Q(0), Q(1), Q(5), Q(10), Q(20)}

Voltages == {12, 24, 48}

MaxDrops == {Q(0), Q(1), Q(3)}

\* installed sections: rows of the table, and 3 mm2, which is no row of it
Sections == {R(3, 2), R(5, 2), Q(3), Q(35)}

Both12 == Consumer(12, [powerW |-> Q(120), currentA |-> Q(5), dailyHours |-> Q(1),
                        dutyCycle |-> Q(1)])

Winch12 == Consumer(12, [currentA |-> Q(30), dailyHours |-> Q(1), dutyCycle |-> Q(1)])

Fridge12 == Consumer(12, [currentA |-> Q(20), dailyHours |-> Q(8), dutyCycle |-> R(1, 2)])

Bare24 == Consumer(24, [dailyHours |-> Q(1), dutyCycle |-> Q(1)])

Alternator12 == [type |-> "alternator", voltage |-> 12, maxPowerW |-> Q(720),
                 engineHoursPerDay |-> Q(2)]

Charger12 == [type |-> "charger", voltage |-> 12, maxPowerW |-> Q(240)]

Solar24 == [type |-> "solar", voltage |-> 24, maxPowerW |-> Q(200), efficiency |-> R(4, 5),
            quantity |-> 2]

CalcConsumers == {Lamp12, Pump24, Both12, Winch12, Fridge12, Bare24}

CalcNodes == CalcConsumers \cup {Battery12, Solar12, Bus12, Charger12}

Producers == {Solar12, Solar24, Alternator12, Charger12, Lamp12}

WithIds(seq) == [i \in 1..Len(seq) |-> [id |-> i] @@ seq[i]]

ArraysOf(S) == UNION {[1..k -> S] : k \in 0..MaxArr}

CallGetNodeCurrent ==
  /\ call = NoCall
  /\ \E n \in CalcNodes :
       /\ call' = [op |-> "getNodeCurrent", node |-> n]
       /\ ret' = getNodeCurrent(n)
       /\ UNCHANGED <<nodes, connections, bfs>>
  /\ UNCHANGED editorVars

CallGetNodePower ==
  /\ call = NoCall
  /\ \E n \in CalcNodes :
       /\ call' = [op |-> "getNodePower", node |-> n]
       /\ ret' = getNodePower(n)
       /\ UNCHANGED <<nodes, connections, bfs>>
  /\ UNCHANGED editorVars

CallGetTotalDailyProductionAh ==
  /\ call = NoCall
  /\ \E ns \in ArraysOf(Producers) :
       /\ call' = [op |-> "getTotalDailyProductionAh", nodes |-> WithIds(ns)]
       /\ ret' = getTotalDailyProductionAh(WithIds(ns), Q(DEFAULT_SUN_HOURS))
       /\ UNCHANGED <<nodes, connections, bfs>>
  /\ UNCHANGED editorVars

CallGetRecommendedSection ==
  /\ call = NoCall
  /\ \E c \in Currents, l \in Lengths, v \in Voltages, d \in MaxDrops :
       /\ call' = [op |-> "getRecommendedSection", currentA |-> c, lengthM |-> l,
                   voltage |-> v, maxDropPercent |-> d]
       /\ ret' = getRecommendedSection(c, l, Q(v), d)
       /\ UNCHANGED <<nodes, connections, bfs>>
  /\ UNCHANGED editorVars

CallAnalyzeCable ==
  /\ call = NoCall
  /\ \E f \in CalcNodes, t \in CalcNodes, s \in Sections, l \in Lengths \ {Q(0)} :
       LET conn == [id |-> 1, fromNodeId |-> 1, toNodeId |-> 2, sectionMm2 |-> s, lengthM |-> l]
           fromNode == [id |-> 1] @@ f
           toNode == [id |-> 2] @@ t
       IN  /\ call' = [op |-> "analyzeCable", connection |-> conn, fromNode |-> fromNode,
                       toNode |-> toNode]
           /\ ret' = analyzeCable(conn, fromNode, toNode)
           /\ UNCHANGED <<nodes, connections, bfs>>
  /\ UNCHANGED editorVars

\* currents up to and beyond the largest rating; 240 A x 1.25 is the 300 A rating itself
FuseCurrents == {Q(0), Q(1), Q(4), Q(6), Q(8), Q(10), Q(12), Q(80), Q(100), Q(200),
                 Q(240), Q(241), Q(300), Q(1000)}

CallGetRecommendedFuse ==
  /\ call = NoCall
  /\ \E c \in FuseCurrents :
       /\ call' = [op |-> "getRecommendedFuse", currentA |-> c]
       /\ ret' = getRecommendedFuse(c)
       /\ UNCHANGED <<nodes, connections, bfs>>
  /\ UNCHANGED editorVars

\* battery banks: two in series, two in parallel, a count without a configuration
BankSeries12 == [type |-> "battery", voltage |-> 12, capacityAh |-> Q(100), chemistry |-> "agm",
                 quantity |-> 2, configuration |-> "series"]

BankParallel12 == [type |-> "battery", voltage |-> 12, capacityAh |-> Q(50),
                   chemistry |-> "lifepo4", quantity |-> 2, configuration |-> "parallel"]

BankCounted12 == [type |-> "battery", voltage |-> 12, capacityAh |-> Q(60),
                  chemistry |-> "lithium", quantity |-> 3]

\* a battery whose capacity field was emptied in the property panel (Number(v) || 0)
EmptyBattery12 == [type |-> "battery", voltage |-> 12, capacityAh |-> Q(0),
                   chemistry |-> "lifepo4"]

BatteryBanks == {Battery12, BankSeries12, BankParallel12, BankCounted12, EmptyBattery12, Lamp12}

StatusNodes == {Battery12, BankParallel12, Lamp12, Both12, Winch12, Fridge12}

AutonomyTargets == {Q(1), Q(2), Q(5)}

DailyAhs == {Q(0), Q(25), Q(100)}

DaysOfAutonomy == {Q(0), Q(1), Q(2)}

DepthsOfDischarge == {Q(0), R(1, 2), R(4, 5)}

UsableAhs == {Q(0), Q(50), Q(400)}

CallGetTotalBatteryCapacityAh ==
  /\ call = NoCall
  /\ \E ns \in ArraysOf(BatteryBanks) :
       /\ call' = [op |-> "getTotalBatteryCapacityAh", nodes |-> WithIds(ns)]
       /\ ret' = getTotalBatteryCapacityAh(WithIds(ns))
       /\ UNCHANGED <<nodes, connections, bfs>>
  /\ UNCHANGED editorVars

CallGetDominantBatteryChemistry ==
  /\ call = NoCall
  /\ \E ns \in ArraysOf(BatteryBanks) :
       /\ call' = [op |-> "getDominantBatteryChemistry", nodes |-> WithIds(ns)]
       /\ ret' = getDominantBatteryChemistry(WithIds(ns))
       /\ UNCHANGED <<nodes, connections, bfs>>
  /\ UNCHANGED editorVars

CallGetEffectiveDoD ==
  /\ call = NoCall
  /\ \E ns \in ArraysOf(BatteryBanks) :
       /\ call' = [op |-> "getEffectiveDoD", nodes |-> WithIds(ns)]
       /\ ret' = getEffectiveDoD(WithIds(ns))
       /\ UNCHANGED <<nodes, connections, bfs>>
  /\ UNCHANGED editorVars

CallGetBatteryStatus ==
  /\ call = NoCall
  /\ \E ns \in ArraysOf(StatusNodes), target \in AutonomyTargets :
       /\ call' = [op |-> "getBatteryStatus", nodes |-> WithIds(ns),
                   requiredAutonomyDays |-> target]
       /\ ret' = getBatteryStatus(WithIds(ns), target)
       /\ UNCHANGED <<nodes, connections, bfs>>
  /\ UNCHANGED editorVars

CallGetRequiredBatteryCapacityAh ==
  /\ call = NoCall
  /\ \E c \in DailyAhs, d \in DaysOfAutonomy, dod \in DepthsOfDischarge :
       /\ call' = [op |-> "getRequiredBatteryCapacityAh", dailyConsumptionAh |-> c,
                   daysAutonomy |-> d, depthOfDischarge |-> dod]
       /\ ret' = getRequiredBatteryCapacityAh(c, d, dod)
       /\ UNCHANGED <<nodes, connections, bfs>>
  /\ UNCHANGED editorVars

CallGetEstimatedAutonomyDays ==
  /\ call = NoCall
  /\ \E u \in UsableAhs, c \in DailyAhs :
       /\ call' = [op |-> "getEstimatedAutonomyDays", usableCapacityAh |-> u,
                   dailyConsumptionAh |-> c]
       /\ ret' = getEstimatedAutonomyDays(u, c)
       /\ UNCHANGED <<nodes, connections, bfs>>
  /\ UNCHANGED editorVars

CallGetTotalDailyConsumptionAh ==
  /\ call = NoCall
  /\ \E ns \in ArraysOf(CalcNodes) :
       /\ call' = [op |-> "getTotalDailyConsumptionAh", nodes |-> WithIds(ns)]
       /\ ret' = getTotalDailyConsumptionAh(WithIds(ns))
       /\ UNCHANGED <<nodes, connections, bfs>>
  /\ UNCHANGED editorVars

CallGetTotalInstantPowerW ==
  /\ call = NoCall
  /\ \E ns \in ArraysOf(CalcNodes) :
       /\ call' = [op |-> "getTotalInstantPowerW", nodes |-> WithIds(ns)]
       /\ ret' = getTotalInstantPowerW(WithIds(ns))
       /\ UNCHANGED <<nodes, connections, bfs>>
  /\ UNCHANGED editorVars

\* the caller takes the result; the next call starts from scratch
\* cables of the panel and of isCableOversized: sections on and off the table
PanelSections == {R(3, 2), R(5, 2), Q(3), Q(6)}

CallIsCableOversized ==
  /\ call = NoCall
  /\ \E s \in PanelSections, l \in Lengths \ {Q(0)}, c \in Currents, v \in Voltages :
       LET conn == [id |-> 1, fromNodeId |-> 1, toNodeId |-> 2, sectionMm2 |-> s, lengthM |-> l]
       IN  /\ call' = [op |-> "isCableOversized", connection |-> conn, currentA |-> c,
                       voltage |-> v]
           /\ ret' = isCableOversized(conn, c, Q(v))
           /\ UNCHANGED <<nodes, connections, bfs>>
  /\ UNCHANGED editorVars

\* one row of the fuse panel: the connection, its two nodes and its analysis
CallFuseInfo ==
  /\ call = NoCall
  /\ \E f \in CalcNodes, t \in CalcNodes, s \in PanelSections, l \in {Q(1), Q(5)} :
       LET conn == [id |-> 1, fromNodeId |-> 1, toNodeId |-> 2, sectionMm2 |-> s, lengthM |-> l]
           fromNode == [id |-> 1] @@ f
           toNode == [id |-> 2] @@ t
           analysis == analyzeCable(conn, fromNode, toNode)
       IN  /\ call' = [op |-> "fuseInfo", connection |-> conn, fromNode |-> fromNode,
                       toNode |-> toNode, analysis |-> analysis]
           /\ ret' = fuseInfo(conn, analysis)
           /\ UNCHANGED <<nodes, connections, bfs>>
  /\ UNCHANGED editorVars

Return ==
  /\ call # NoCall
  /\ call' = NoCall
  /\ ret' = NoRet
  /\ UNCHANGED <<nodes, connections, bfs>>
  /\ UNCHANGED editorVars

NextCalc ==
  \/ Return
  \/ CallGetNodeCurrent
  \/ CallGetNodePower
  \/ CallGetTotalDailyProductionAh
  \/ CallGetRecommendedSection
  \/ CallAnalyzeCable
  \/ CallGetRecommendedFuse
  \/ CallGetTotalBatteryCapacityAh
  \/ CallGetDominantBatteryChemistry
  \/ CallGetEffectiveDoD
  \/ CallGetBatteryStatus
  \/ CallGetRequiredBatteryCapacityAh
  \/ CallGetEstimatedAutonomyDays
  \/ CallGetTotalDailyConsumptionAh
  \/ CallGetTotalInstantPowerW
  \/ CallIsCableOversized
  \/ CallFuseInfo

SpecCalc == Init /\ [][NextCalc]_vars

----------------------------------------------------------------------------
(* A stored project opened as a whole and handed to the engine, as the     *)
(* energy panel does with the arrays of the project store.                  *)

Switch12 == [type |-> "switch", voltage |-> 12, maxCurrentA |-> Q(100)]

Fuse12 == [type |-> "fuse", voltage |-> 12, ratingA |-> Q(15)]

\* cables of 1, 0.5 and 6 mm2: at 10 A and 12 V an undersized one of status
\* 'ok', an undersized one of status 'overload', and one that is large enough
ProjectCables ==
  { [sectionMm2 |-> Q(1), lengthM |-> Q(1)],
    [sectionMm2 |-> R(1, 2), lengthM |-> Q(5)],
    [sectionMm2 |-> Q(6), lengthM |-> Q(5)] }

\* connection arrays of up to MaxConns cables between any two ids, existing or not
ConnectionsOf(cables) ==
  LET One == {[fromNodeId |-> f, toNodeId |-> t] @@ c : f \in NodeIds, t \in NodeIds,
                                                        c \in cables}
  IN  {WithIds(cs) : cs \in UNION {[1..k -> One] : k \in 0..MaxConns}}

\* a panel yielding 96 W x 5 h x 0.5 / 12 V = 20 Ah a day
Solar96 == [type |-> "solar", voltage |-> 12, maxPowerW |-> Q(96), efficiency |-> R(1, 2)]

\* a cable of 3 mm2, which is no section of the reference table
OddCables == {[sectionMm2 |-> Q(3), lengthM |-> Q(1)]}

\* projects varying the nodes under one cable, the cables under few nodes, the
\* energy balance without cables, and the endpoints of an off-table cable
Projects ==
  {<<WithIds(ns), cs>> : ns \in ArraysOf({Lamp12, Battery12, Bus12, Switch12, Fuse12}),
                         cs \in ConnectionsOf(GraphCables)}
    \cup {<<WithIds(ns), cs>> : ns \in ArraysOf({Lamp12, Battery12}),
                                cs \in ConnectionsOf(ProjectCables)}
    \cup {<<WithIds(ns), <<>> >> : ns \in ArraysOf({Solar96, Lamp12, Both12, Battery12})}
    \cup {<<WithIds(ns), cs>> : ns \in ArraysOf({Lamp12, Solar24, Battery12}),
                                cs \in ConnectionsOf(OddCables)}

OpenProject ==
  /\ nodes = <<>> /\ connections = <<>> /\ call = NoCall
  /\ \E p \in Projects : nodes' = p[1] /\ connections' = p[2]
  /\ UNCHANGED <<call, ret, bfs>>
  /\ UNCHANGED editorVars

CallAnalyzeAllCables ==
  /\ bfs.pc # "loop"
  /\ call' = [op |-> "analyzeAllCables"]
  /\ ret' = analyzeAllCables(connections, nodes)
  /\ bfs' = BfsIdle
  /\ UNCHANGED <<nodes, connections>>
  /\ UNCHANGED editorVars

NextProject ==
  \/ OpenProject
  \/ CallAnalyzeAllCables
  \/ CallValidateCircuit

SpecProject == Init /\ [][NextProject]_vars

----------------------------------------------------------------------------
(* useProjectStore: the editing operations on project.nodes and            *)
(* project.connections.  Nodes carry a position and an optional lock; a     *)
(* name is the sequence of the pieces concatenated into it.                 *)

MaxStoreNodes == 2

MaxStoreConns == 2

MaxNameParts == 2

MaxCoord == 60

\* generateId() draws from the clock and Math.random and checks nothing
GeneratedIds == 1..2

\* ids a caller may pass: those that can exist, and one that never does
PassedIds == 1..3

Point(x, y) == [x |-> x, y |-> y]

DropPoints == {Point(0, 0), Point(30, 0)}

NodeInputs ==
  {[type |-> "consumer", voltage |-> 12, name |-> <<"Lampe">>, position |-> p] : p \in DropPoints}
    \cup {[type |-> "battery", voltage |-> 12, name |-> <<"Batterie">>,
           position |-> Point(0, 0), locked |-> TRUE]}

\* distance(p1, p2) squared
distanceSquared(p1, p2) ==
  (p2.x - p1.x) * (p2.x - p1.x) + (p2.y - p1.y) * (p2.y - p1.y)

\* Math.round(total * 0.02 * 10) / 10 for the straight cable between two nodes:
\* the tenths k with k - 1/2 <= sqrt(d2) / 5 < k + 1/2
calculateCableLength(fromNode, toNode) ==
  LET d2 == distanceSquared(fromNode.position, toNode.position)
      k == CHOOSE t \in 0..(MaxCoord \div 2) :
             /\ (t = 0 \/ (10 * t - 5) * (10 * t - 5) <= 4 * d2)
             /\ (10 * t + 5) * (10 * t + 5) > 4 * d2
  IN  R(k, 10)

findNode(ns, id) == FindIndex(ns, LAMBDA n : n.id = id)

\* as removeNode's filter of the connections, but on the from-side only
connectionsAfterRemove_fromOnly(conns, id) ==
  SelectSeq(conns, LAMBDA c : c.fromNodeId # id)

connectionsAfterRemove(conns, id) ==
  SelectSeq(conns, LAMBDA c : c.fromNodeId # id /\ c.toNodeId # id)

\* the connections of moveNode's set(): lengths of the cables touching id recomputed
connectionsAfterMove(ns, conns, node, id, position) ==
  LET moved == [node EXCEPT !.position = position]
      endOf(nodeId) == IF nodeId = id THEN moved
                       ELSE IF findNode(ns, nodeId) # 0 THEN ns[findNode(ns, nodeId)]
                       ELSE Null
  IN  [k \in 1..Len(conns) |->
         LET c == conns[k]
         IN  IF (c.fromNodeId = id \/ c.toNodeId = id)
                  /\ endOf(c.fromNodeId) # Null /\ endOf(c.toNodeId) # Null
               THEN [c EXCEPT !.lengthM = calculateCableLength(endOf(c.fromNodeId),
                                                                endOf(c.toNodeId))]
               ELSE c]

StoreAddNode ==
  /\ Len(nodes) < MaxStoreNodes
  /\ \E input \in NodeInputs, id \in GeneratedIds :
       /\ nodes' = Append(nodes, [id |-> id] @@ input)
       /\ call' = [op |-> "addNode"]
       /\ ret' = [id |-> id]
  /\ UNCHANGED <<connections, bfs>>
  /\ UNCHANGED editorVars

StoreDuplicateNode ==
  /\ \E id \in PassedIds, newId \in GeneratedIds :
       LET i == findNode(nodes, id)
       IN  /\ call' = [op |-> "duplicateNode", id |-> id]
           /\ IF i = 0
                THEN ret' = Null /\ UNCHANGED nodes
                ELSE /\ Len(nodes) < MaxStoreNodes
                     /\ Len(nodes[i].name) < MaxNameParts
                     /\ nodes[i].position.x + 30 <= MaxCoord
                     /\ nodes' = Append(nodes,
                          [nodes[i] EXCEPT !.id = newId,
                                           !.name = Append(@, " (copie)"),
                                           !.position = Point(@.x + 30, @.y + 30)])
                     /\ ret' = [id |-> newId]
  /\ UNCHANGED <<connections, bfs>>
  /\ UNCHANGED editorVars

StoreMoveNode ==
  /\ \E id \in PassedIds, position \in DropPoints :
       LET i == findNode(nodes, id)
       IN  /\ call' = [op |-> "moveNode", id |-> id]
           /\ ret' = NoRet
           /\ IF i = 0 \/ (Has(nodes[i], "locked") /\ nodes[i].locked)
                THEN UNCHANGED <<nodes, connections>>
                ELSE /\ nodes' = [k \in 1..Len(nodes) |->
                                    IF nodes[k].id = id
                                      THEN [nodes[k] EXCEPT !.position = position]
                                      ELSE nodes[k]]
                     /\ connections' = connectionsAfterMove(nodes, connections, nodes[i],
                                                            id, position)
  /\ UNCHANGED bfs
  /\ UNCHANGED editorVars

StoreRemoveNode ==
  /\ \E id \in PassedIds :
       /\ nodes' = SelectSeq(nodes, LAMBDA n : n.id # id)
       /\ connections' = connectionsAfterRemove(connections, id)
       /\ call' = [op |-> "removeNode", id |-> id]
       /\ ret' = NoRet
  /\ UNCHANGED bfs
  /\ UNCHANGED editorVars

StoreAddConnection ==
  /\ \E fromNodeId \in PassedIds, toNodeId \in PassedIds, id \in GeneratedIds :
       LET f == findNode(nodes, fromNodeId)
           t == findNode(nodes, toNodeId)
       IN  /\ call' = [op |-> "addConnection", fromNodeId |-> fromNodeId, toNodeId |-> toNodeId]
           /\ IF f = 0 \/ t = 0
                THEN /\ ret' = [error |-> "Nodes not found for connection"]
                     /\ UNCHANGED connections
                ELSE /\ Len(connections) < MaxStoreConns
                     /\ connections' = Append(connections,
                          [id |-> id, fromNodeId |-> fromNodeId, toNodeId |-> toNodeId,
                           sectionMm2 |-> R(5, 2),
                           lengthM |-> calculateCableLength(nodes[f], nodes[t])])
                     /\ ret' = [id |-> id]
  /\ UNCHANGED <<nodes, bfs>>
  /\ UNCHANGED editorVars

StoreRemoveConnection ==
  /\ \E id \in GeneratedIds :
       /\ connections' = SelectSeq(connections, LAMBDA c : c.id # id)
       /\ call' = [op |-> "removeConnection", id |-> id]
       /\ ret' = NoRet
  /\ UNCHANGED <<nodes, bfs>>
  /\ UNCHANGED editorVars

NextStore ==
  \/ StoreAddNode
  \/ StoreDuplicateNode
  \/ StoreMoveNode
  \/ StoreRemoveNode
  \/ StoreAddConnection
  \/ StoreRemoveConnection

SpecStore == Init /\ [][NextStore]_vars

----------------------------------------------------------------------------
(* useEditorStore: the toast and its auto-hide timers.  now counts seconds; *)
(* timers holds the pending setTimeout callbacks in the order they were     *)
(* set, which is the order they fire in (all have the same delay).  A       *)
(* callback runs when its delay has elapsed: time does not pass a due       *)
(* timer.  shownAt, in the toast, is the time of the call that displayed    *)
(* it; the store does not keep it.                                          *)

ToastDelay == 3

MaxTime == 6

MaxTimers == 3

Messages == {"Projet sauvegarde", "Cable ajoute"}

ToastTypes == {"info", "error"}

ShowToast ==
  /\ Len(timers) < MaxTimers
  /\ \E message \in Messages, type \in ToastTypes :
       /\ toast' = [message |-> message, type |-> type, shownAt |-> now]
       /\ timers' = Append(timers, [message |-> message, due |-> now + ToastDelay])
       /\ call' = [op |-> "showToast"]
  /\ UNCHANGED <<nodes, connections, ret, bfs, selection, multiSelection, now>>

HideToast ==
  /\ toast' = Null
  /\ call' = [op |-> "hideToast"]
  /\ UNCHANGED <<nodes, connections, ret, bfs, selection, multiSelection, timers, now>>

\* the callback given to setTimeout
ToastTimeout ==
  /\ timers # <<>>
  /\ Head(timers).due <= now
  /\ toast' = IF toast # Null /\ toast.message = Head(timers).message THEN Null ELSE toast
  /\ timers' = Tail(timers)
  /\ call' = [op |-> "toastTimeout"]
  /\ UNCHANGED <<nodes, connections, ret, bfs, selection, multiSelection, now>>

\* a second passes
Tick ==
  /\ now < MaxTime
  /\ \A k \in 1..Len(timers) : timers[k].due > now
  /\ now' = now + 1
  /\ call' = [op |-> "tick"]
  /\ UNCHANGED <<nodes, connections, ret, bfs, selection, multiSelection, toast, timers>>

NextToast ==
  \/ ShowToast
  \/ HideToast
  \/ ToastTimeout
  \/ Tick

SpecToast == Init /\ [][NextToast]_vars

----------------------------------------------------------------------------
(* useEditorStore: the selection and the multiple selection.                *)

SelectionTypes == {"node", "connection"}

SelectionIds == 1..3

Selections == [type : SelectionTypes, id : SelectionIds]

\* as removeFromSelection's new selection, but keeping the selection as it is
selectionAfterRemove_kept(sel, newMulti, id) == sel

\* state.selection?.id === id ? (newMulti[0] ?? null) : state.selection
selectionAfterRemove(sel, newMulti, id) ==
  IF sel # Null /\ sel.id = id
    THEN (IF newMulti # <<>> THEN newMulti[1] ELSE Null)
    ELSE sel

SetSelection ==
  /\ \E s \in Selections \cup {Null} :
       /\ selection' = s
       /\ multiSelection' = IF s # Null THEN <<s>> ELSE <<>>
       /\ call' = [op |-> "setSelection"]
  /\ UNCHANGED <<nodes, connections, ret, bfs, toast, timers, now>>

AddToSelection ==
  /\ \E s \in Selections :
       /\ call' = [op |-> "addToSelection", selection |-> s]
       /\ IF \E k \in 1..Len(multiSelection) : multiSelection[k].id = s.id
            THEN UNCHANGED <<selection, multiSelection>>
            ELSE /\ selection' = s
                 /\ multiSelection' = Append(multiSelection, s)
  /\ UNCHANGED <<nodes, connections, ret, bfs, toast, timers, now>>

RemoveFromSelection ==
  /\ \E id \in SelectionIds :
       LET newMulti == SelectSeq(multiSelection, LAMBDA s : s.id # id)
       IN  /\ selection' = selectionAfterRemove(selection, newMulti, id)
           /\ multiSelection' = newMulti
           /\ call' = [op |-> "removeFromSelection", id |-> id]
  /\ UNCHANGED <<nodes, connections, ret, bfs, toast, timers, now>>

ClearSelection ==
  /\ selection' = Null
  /\ multiSelection' = <<>>
  /\ call' = [op |-> "clearSelection"]
  /\ UNCHANGED <<nodes, connections, ret, bfs, toast, timers, now>>

NextSelection ==
  \/ SetSelection
  \/ AddToSelection
  \/ RemoveFromSelection
  \/ ClearSelection

SpecSelection == Init /\ [][NextSelection]_vars

----------------------------------------------------------------------------
(* Claims on the calculators (checked under SpecCalc)                      *)

StandardSections == {cableStandards[i].sectionMm2 : i \in 1..Len(cableStandards)}

IsCall(op) == call.op = op

\* C1: a connection of the recommended section (default 3 % drop) that
\* carries the current the section was recommended for is never given the
\* status 'overload' by the status rule of analyzeCable.
C1_RoundTripNeverOverload ==
  (IsCall("getRecommendedSection") /\ call.maxDropPercent = Q(MAX_VOLTAGE_DROP_PERCENT))
    => cableStatus(call.currentA,
                   calculateVoltageDropPercent(call.currentA, call.lengthM, ret,
                                               Q(call.voltage)),
                   ret) # "overload"

\* the currents the precedence of C2 allows for a pair of endpoints
C2_ClaimedCurrents(fromNode, toNode) ==
  LET ends == {fromNode, toNode}
      consumers == {n \in ends : n.type = "consumer"}
      batteries == {n \in ends : n.type = "battery" /\ Has(n, "capacityAh")}
  IN  IF consumers # {} THEN {getNodeCurrent(n) : n \in consumers}
      ELSE IF batteries # {} THEN {RDiv(n.capacityAh, Q(5)) : n \in batteries}
      ELSE {Zero}

\* C2: the current analyzeCable reports is a consumer endpoint's current if
\* either endpoint is a consumer, else capacityAh / 5 of a battery endpoint on
\* either side, else 0.
C2_CurrentPrecedence ==
  IsCall("analyzeCable")
    => ret.currentA \in {RoundTo(c, 10) : c \in C2_ClaimedCurrents(call.fromNode, call.toNode)}

\* C3: for every consumer, getNodePower(n) / n.voltage equals
\* getNodeCurrent(n), also when the node carries both powerW and currentA.
C3_PowerOverVoltageIsCurrent ==
  (IsCall("getNodePower") /\ call.node.type = "consumer")
    => REq(RDiv(ret, Q(call.node.voltage)), getNodeCurrent(call.node))

\* the hours a shore charger charges per day when plugged in (doc comment of
\* getChargerDailyAh)
ChargerHoursPlugged == 8

\* C7: the total daily production is the sum of the daily yield of the solar,
\* the alternator and the charger nodes of the array.
C7_ProductionCountsChargers ==
  IsCall("getTotalDailyProductionAh")
    => REq(ret,
           RAdd(RAdd(getTotalSolarDailyAh(call.nodes, Q(DEFAULT_SUN_HOURS)),
                     getTotalAlternatorDailyAh(call.nodes)),
                SumOver(filterNodesByType(call.nodes, "charger"),
                        LAMBDA n : getChargerDailyAh(n, Q(ChargerHoursPlugged)))))

\* 2 x 0.0175 x lengthM x current / sectionMm2 / voltage x 100 > 3, on integers
C9_DropAboveThree(current, lengthM, sectionMm2, voltage) ==
  2 * 175 * 100 * lengthM.n * current.n * sectionMm2.d
    > 3 * 10000 * sectionMm2.n * voltage * lengthM.d * current.d

C10_SectionForDrop(currentA, lengthM, voltage, maxDropPercent) ==
  IF RLe(maxDropPercent, Zero) THEN Infinity
  ELSE RDiv(RMul(RMul(R(35, 10), lengthM), currentA), RMul(Q(voltage), maxDropPercent))

\* the standard sections rated for 1.25 x currentA
C10_SectionsForCurrent(currentA) ==
  {r.sectionMm2 : r \in {x \in Range(cableStandards) :
                           RGe(x.maxCurrentA, RMul(currentA, R(5, 4)))}}

C10_Smallest(S) == CHOOSE s \in S : \A t \in S : RLe(s, t)

C10_Largest(S) == CHOOSE s \in S : \A t \in S : RLe(t, s)

FuseRatings == Range(standardFuseRatings)

\* C11: getRecommendedFuse(current) is the smallest standard rating that is
\* >= 1.25 x current (10 A gives 15 A), and the largest standard rating,
\* 300 A, when no rating is that large; it always returns a rating.
C11_FuseSmallestWithMargin ==
  IsCall("getRecommendedFuse")
    => LET target == RMul(call.currentA, R(5, 4))
           fits == {r \in FuseRatings : RGe(r, target)}
       IN  /\ ret \in FuseRatings
           /\ IF fits = {} THEN ret = Q(300)
              ELSE ret \in fits /\ \A r \in fits : RLe(ret, r)
           /\ (call.currentA = Q(10) => ret = Q(15))

\* a current whose 1.25-fold (301.25 A) exceeds every rating gets the 300 A fuse
C11_Witness ==
  /\ IsCall("getRecommendedFuse")
  /\ call.currentA = Q(241)
  /\ ret = Q(300)

\* C12: getRecommendedFuse is monotonic: a current at least as large as the
\* one of the call, beyond the largest rating or not, never gets a smaller fuse.
C12_FuseMonotone ==
  IsCall("getRecommendedFuse")
    => \A c2 \in FuseCurrents :
         RLe(call.currentA, c2) => RLe(ret, getRecommendedFuse(c2))

\* the last current with a fitting rating, compared with currents that have none
C12_Witness ==
  /\ IsCall("getRecommendedFuse")
  /\ call.currentA = Q(240)
  /\ ret = Q(300)
  /\ \E c2 \in FuseCurrents : RLt(Q(300), RMul(c2, R(5, 4)))

C13_IsSeries(n) == "configuration" \in DOMAIN n /\ n.configuration = "series"

C13_Quantity(n) == IF "quantity" \in DOMAIN n THEN n.quantity ELSE 1

\* the capacity the claim gives: series banks by their nominal capacity, all
\* other batteries by capacity x quantity
C13_ClaimedCapacity(ns) ==
  LET bats == SelectSeq(ns, LAMBDA n : n.type = "battery")
      series == SelectSeq(bats, C13_IsSeries)
      others == SelectSeq(bats, LAMBDA n : ~C13_IsSeries(n))
  IN  RAdd(SumSeq([i \in 1..Len(series) |-> series[i].capacityAh]),
           SumSeq([i \in 1..Len(others) |->
                     RMul(others[i].capacityAh, Q(C13_Quantity(others[i])))]))

\* C13: getTotalBatteryCapacityAh sums, over the battery nodes only,
\* capacityAh x quantity for parallel batteries and capacityAh alone for
\* series batteries; no configuration counts as parallel, no quantity as 1.
C13_TotalCapacity ==
  IsCall("getTotalBatteryCapacityAh") => ret = C13_ClaimedCapacity(call.nodes)

\* two 100 Ah in series (100), three 60 Ah without configuration (180), a consumer
C13_Witness ==
  /\ IsCall("getTotalBatteryCapacityAh")
  /\ call.nodes = WithIds(<<BankSeries12, BankCounted12, Lamp12>>)
  /\ ret = Q(280)

\* the chemistry the claim names: largest capacityAh x quantity over the
\* battery nodes, the chemistry met first in the array winning a tie
C14_ClaimedChemistry(ns) ==
  LET idx == {i \in 1..Len(ns) : ns[i].type = "battery"}
      chems == {ns[i].chemistry : i \in idx}
      of(c) == SelectSeq(ns, LAMBDA n : n.type = "battery" /\ n.chemistry = c)
      weight(c) == SumSeq([i \in 1..Len(of(c)) |->
                            RMul(of(c)[i].capacityAh, Q(C13_Quantity(of(c)[i])))])
      first(c) == CHOOSE i \in idx : ns[i].chemistry = c
                                     /\ \A j \in idx : ns[j].chemistry = c => i <= j
  IN  CHOOSE c \in chems :
        \A c2 \in chems \ {c} :
          \/ RGt(weight(c), weight(c2))
          \/ (weight(c) = weight(c2) /\ first(c) < first(c2))

\* C14: with batteries installed, getDominantBatteryChemistry is the
\* chemistry of the largest summed capacityAh x quantity (first met wins a
\* tie) and getEffectiveDoD is the table's DoD of that chemistry.
C14_DominantChemistry ==
  /\ (IsCall("getDominantBatteryChemistry")
        /\ \E i \in 1..Len(call.nodes) : call.nodes[i].type = "battery")
       => ret = C14_ClaimedChemistry(call.nodes)
  /\ (IsCall("getEffectiveDoD")
        /\ \E i \in 1..Len(call.nodes) : call.nodes[i].type = "battery")
       => ret = DOD_BY_CHEMISTRY[C14_ClaimedChemistry(call.nodes)]

\* the autonomy of the claim: usable capacity over daily consumption,
\* +infinity when nothing is consumed
C15_Autonomy(ns) ==
  LET consumption == getTotalDailyConsumptionAh(ns)
      usable == RMul(getTotalBatteryCapacityAh(ns), getEffectiveDoD(ns))
  IN  IF consumption = Zero THEN Infinity ELSE RDiv(usable, consumption)

\* C15: getBatteryStatus is 'ok' iff the autonomy is >= the target,
\* 'warning' iff it is >= half the target and < the target, 'critical'
\* otherwise; an autonomy of exactly the target or exactly half of it falls
\* into the better class; the default target is 2 days.
C15_StatusClasses ==
  IsCall("getBatteryStatus")
    => LET est == C15_Autonomy(call.nodes)
           target == call.requiredAutonomyDays
           half == RDiv(target, Q(2))
       IN  /\ ret \in {"ok", "warning", "critical"}
           /\ (ret = "ok") <=> RGe(est, target)
           /\ (ret = "warning") <=> (RGe(est, half) /\ RLt(est, target))
           /\ (ret = "critical") <=> RLt(est, half)
           /\ (est = target => ret = "ok")
           /\ (est = half => ret = "warning")
           /\ DEFAULT_DAYS_AUTONOMY = 2

\* 100 Ah lead (50 Ah usable) against 20 + 30 Ah a day: exactly 1 day, half of 2
C15_Witness ==
  /\ IsCall("getBatteryStatus")
  /\ call.nodes = WithIds(<<Battery12, Lamp12, Winch12>>)
  /\ call.requiredAutonomyDays = Q(2)
  /\ C15_Autonomy(call.nodes) = Q(1)
  /\ ret = "warning"

\* C16: with a depth of discharge of 0 the required capacity is +infinity
\* and with a daily consumption of 0 the autonomy is +infinity, whatever the
\* other arguments (0 included), never NaN; otherwise the results are
\* c x d / dod and u / c (100 Ah a day, 2 days, DoD 0.5: 400 Ah).
C16_DegenerateIsInfinity ==
  /\ IsCall("getRequiredBatteryCapacityAh")
       => /\ ~IsNaN(ret)
          /\ IF call.depthOfDischarge = Zero THEN ret = Infinity
             ELSE ret = RDiv(RMul(call.dailyConsumptionAh, call.daysAutonomy),
                             call.depthOfDischarge)
          /\ (call.dailyConsumptionAh = Q(100) /\ call.daysAutonomy = Q(2)
                /\ call.depthOfDischarge = R(1, 2)) => ret = Q(400)
  /\ IsCall("getEstimatedAutonomyDays")
       => /\ ~IsNaN(ret)
          /\ IF call.dailyConsumptionAh = Zero THEN ret = Infinity
             ELSE ret = RDiv(call.usableCapacityAh, call.dailyConsumptionAh)

\* no usable capacity and no consumption: 0 / 0
C16_Witness ==
  /\ IsCall("getEstimatedAutonomyDays")
  /\ call.usableCapacityAh = Zero
  /\ call.dailyConsumptionAh = Zero
  /\ ret = Infinity

TotalOps == {"getTotalDailyConsumptionAh", "getTotalInstantPowerW",
             "getTotalDailyProductionAh", "getTotalBatteryCapacityAh"}

TotalOf(op, ns) ==
  CASE op = "getTotalDailyConsumptionAh" -> getTotalDailyConsumptionAh(ns)
    [] op = "getTotalInstantPowerW" -> getTotalInstantPowerW(ns)
    [] op = "getTotalDailyProductionAh" -> getTotalDailyProductionAh(ns, Q(DEFAULT_SUN_HOURS))
    [] op = "getTotalBatteryCapacityAh" -> getTotalBatteryCapacityAh(ns)

\* the node types a total is about
TypesOf(op) ==
  CASE op = "getTotalDailyConsumptionAh" -> {"consumer"}
    [] op = "getTotalInstantPowerW" -> {"consumer"}
    [] op = "getTotalDailyProductionAh" -> {"solar", "alternator", "charger"}
    [] op = "getTotalBatteryCapacityAh" -> {"battery"}

C23_Rule(conn, currentA) ==
  /\ RLt(currentA, RMul(ratedMaxCurrent(conn.sectionMm2), R(3, 10)))
  /\ RGt(conn.sectionMm2, R(3, 2))

\* C23: a cable is flagged oversized exactly when its current is below 30 % of the
\* rated current of its section and its section is above 1.5 mm2, by the status of
\* the fuse panel and by isCableOversized alike.
C23_OversizedByRule ==
  /\ IsCall("fuseInfo") =>
        ((ret.status = "oversized") <=> C23_Rule(call.connection, call.analysis.currentA))
  /\ IsCall("isCableOversized") =>
        (ret <=> C23_Rule(call.connection, call.currentA))

\* the fuse panel alone follows the rule
C23_PanelByRule ==
  IsCall("fuseInfo") =>
    ((ret.status = "oversized") <=> C23_Rule(call.connection, call.analysis.currentA))

----------------------------------------------------------------------------
(* Claims on whole projects (checked under SpecProject)                    *)

Dangling(conn) ==
  \/ \A i \in 1..Len(nodes) : nodes[i].id # conn.fromNodeId
  \/ \A i \in 1..Len(nodes) : nodes[i].id # conn.toNodeId

\* C17: analyzeAllCables returns one row per connection, in the order of
\* the connections and with their ids; a connection with a missing endpoint
\* gets a row of zeros with status 'ok'; and each row is the one the
\* connection gets when it is analysed alone.
C17_OneRowPerConnection ==
  IsCall("analyzeAllCables")
    => /\ Len(ret) = Len(connections)
       /\ \A k \in 1..Len(connections) :
            /\ ret[k].connectionId = connections[k].id
            /\ Dangling(connections[k])
                 => /\ ret[k].currentA = Zero
                    /\ ret[k].voltageDrop = Zero
                    /\ ret[k].voltageDropPercent = Zero
                    /\ ret[k].powerLossW = Zero
                    /\ ret[k].status = "ok"
            /\ ret[k] = analyzeAllCables(<<connections[k]>>, nodes)[1]

\* a cable to a missing node ahead of a cable carrying current
C17_Witness ==
  /\ IsCall("analyzeAllCables")
  /\ Len(connections) = 2
  /\ Dangling(connections[1])
  /\ ~Dangling(connections[2])
  /\ ret[1].currentA = Zero
  /\ ret[2].connectionId = 2
  /\ RGt(ret[2].currentA, Zero)

\* the warnings of the call tagged with one node id and no connection
NodeWarnings(id) ==
  {i \in 1..Len(ret.warnings) :
     /\ "nodeIds" \in DOMAIN ret.warnings[i]
     /\ "connectionId" \notin DOMAIN ret.warnings[i]
     /\ ret.warnings[i].nodeIds = <<id>>}

Unwired(node) ==
  \A k \in 1..Len(connections) :
    connections[k].fromNodeId # node.id /\ connections[k].toNodeId # node.id

\* C19: validateCircuit gives a disconnected-node warning, carrying the
\* node's id, to exactly the nodes that are no bus, switch or fuse and whose
\* id is no fromNodeId and no toNodeId of a connection.
C19_DisconnectedExact ==
  IsCall("validateCircuit")
    => /\ \A i \in 1..Len(nodes) :
            Cardinality(NodeWarnings(nodes[i].id))
              = IF nodes[i].type \notin {"bus", "switch", "fuse"} /\ Unwired(nodes[i])
                  THEN 1 ELSE 0
       /\ \A i \in 1..Len(ret.warnings) :
            ("nodeIds" \in DOMAIN ret.warnings[i])
              => \E j \in 1..Len(nodes) : ret.warnings[i].nodeIds = <<nodes[j].id>>

\* an unwired consumer (warned), an unwired fuse (not warned), and a wired
\* battery (not warned)
C19_Witness ==
  /\ IsCall("validateCircuit")
  /\ \E i, j, b \in 1..Len(nodes) :
       /\ nodes[i].type = "consumer" /\ Unwired(nodes[i])
       /\ NodeWarnings(nodes[i].id) # {}
       /\ nodes[j].type = "fuse" /\ Unwired(nodes[j])
       /\ NodeWarnings(nodes[j].id) = {}
       /\ nodes[b].type = "battery" /\ ~Unwired(nodes[b])
       /\ NodeWarnings(nodes[b].id) = {}

UndersizedWarnings(id) ==
  {i \in 1..Len(ret.warnings) :
     /\ ret.warnings[i].type = "undersized_cable"
     /\ ret.warnings[i].connectionId = id}

\* C20: validateCircuit gives one 'undersized_cable' warning to each
\* connection whose sectionMm2 is strictly below the recommendedSectionMm2
\* of its own analysis, whatever the status of that analysis, and none to
\* the other connections.
C20_UndersizedExact ==
  IsCall("validateCircuit")
    => LET analyses == analyzeAllCables(connections, nodes)
       IN  /\ \A k \in 1..Len(connections) :
                Cardinality(UndersizedWarnings(connections[k].id))
                  = IF RLt(connections[k].sectionMm2, analyses[k].recommendedSectionMm2)
                      THEN 1 ELSE 0
           /\ \A i \in 1..Len(ret.warnings) :
                ret.warnings[i].type = "undersized_cable"
                  => \E k \in 1..Len(connections) :
                       ret.warnings[i].connectionId = connections[k].id

\* two undersized cables in one project, one of status 'ok', one overloaded
C20_Witness ==
  /\ IsCall("validateCircuit")
  /\ Len(connections) = 2
  /\ LET analyses == analyzeAllCables(connections, nodes)
     IN  /\ analyses[1].status = "ok"
         /\ analyses[2].status = "overload"
         /\ UndersizedWarnings(1) # {}
         /\ UndersizedWarnings(2) # {}

ErrorsOfType(type) == {i \in 1..Len(ret.errors) : ret.errors[i].type = type}

WarningTypes == {"voltage_drop", "undersized_cable", "low_battery", "unbalanced"}

\* C24: in the result of validateCircuit isValid is true exactly when errors is
\* empty; the errors are no_source, voltage_mismatch and overcurrent only, each
\* raised whatever else was found: no_source exactly without a battery, the
\* voltage errors of checkVoltageMismatch all of them, and one overcurrent per
\* analysis of status 'overload'; the warnings never enter isValid.
C24_ValidIffNoError ==
  IsCall("validateCircuit")
    => LET analyses == analyzeAllCables(connections, nodes)
           overloaded == {k \in 1..Len(analyses) : analyses[k].status = "overload"}
           hasBattery == \E i \in 1..Len(nodes) : nodes[i].type = "battery"
       IN  /\ ret.isValid <=> (ret.errors = <<>>)
           /\ \A i \in 1..Len(ret.errors) :
                ret.errors[i].type \in {"no_source", "voltage_mismatch", "overcurrent"}
           /\ \A i \in 1..Len(ret.warnings) : ret.warnings[i].type \in WarningTypes
           /\ Cardinality(ErrorsOfType("no_source")) = IF hasBattery THEN 0 ELSE 1
           /\ Cardinality(ErrorsOfType("voltage_mismatch"))
                = Len(checkVoltageMismatch(nodes, connections))
           /\ Cardinality(ErrorsOfType("overcurrent")) = Cardinality(overloaded)
           /\ \A k \in overloaded :
                Cardinality({i \in ErrorsOfType("overcurrent") :
                               ret.errors[i].connectionId = analyses[k].connectionId}) = 1
           /\ ret.isValid <=> (hasBattery /\ overloaded = {}
                                 /\ checkVoltageMismatch(nodes, connections) = <<>>)

\* a result with the three kinds of error at once, and warnings beside them
C24_Witness ==
  /\ IsCall("validateCircuit")
  /\ ~ret.isValid
  /\ ErrorsOfType("no_source") # {}
  /\ ErrorsOfType("voltage_mismatch") # {}
  /\ ErrorsOfType("overcurrent") # {}
  /\ ret.warnings # <<>>

\* a valid result that carries warnings
C24_ValidWithWarnings ==
  IsCall("validateCircuit") /\ ret.isValid /\ Len(ret.warnings) >= 2

\* the connection with its two ends exchanged
Swapped(conn) == [conn EXCEPT !.fromNodeId = conn.toNodeId, !.toNodeId = conn.fromNodeId]

CableView(a) == <<a.currentA, a.voltageDropPercent, a.recommendedSectionMm2, a.status>>

\* C25: analyzeCable treats the connection as undirected: with fromNodeId and
\* toNodeId exchanged (and the two nodes with them) the analysis has the same
\* currentA, voltageDropPercent, recommendedSectionMm2 and status.
C25_SwapInvariant ==
  IsCall("analyzeCable")
    => CableView(analyzeCable(Swapped(call.connection), call.toNode, call.fromNode))
         = CableView(ret)

\* the same, for two ends of equal voltage neither of which is a battery, and at
\* most one of which is a consumer
C25_SwapInvariantSameKind ==
  (/\ IsCall("analyzeCable")
   /\ call.fromNode.voltage = call.toNode.voltage
   /\ "battery" \notin {call.fromNode.type, call.toNode.type}
   /\ {call.fromNode.type, call.toNode.type} # {"consumer"})
    => CableView(analyzeCable(Swapped(call.connection), call.toNode, call.fromNode))
         = CableView(ret)

UnbalancedWarnings == {i \in 1..Len(ret.warnings) : ret.warnings[i].type = "unbalanced"}

\* C21: validateCircuit gives the 'unbalanced' warning, once, iff the daily
\* production and the daily consumption are both > 0 and production /
\* consumption < 0.8; never when a total is 0 or the ratio is 0.8 or more.
C21_UnbalancedExact ==
  IsCall("validateCircuit")
    => LET production == getTotalDailyProductionAh(nodes, Q(DEFAULT_SUN_HOURS))
           consumption == getTotalDailyConsumptionAh(nodes)
       IN  /\ Cardinality(UnbalancedWarnings)
                = IF /\ RGt(production, Zero)
                     /\ RGt(consumption, Zero)
                     /\ RLt(RDiv(production, consumption), R(4, 5))
                    THEN 1 ELSE 0
           /\ (production = Zero \/ consumption = Zero) => UnbalancedWarnings = {}
           /\ (consumption # Zero /\ RGe(RDiv(production, consumption), R(4, 5)))
                => UnbalancedWarnings = {}

\* 20 Ah produced against 40 Ah consumed
C21_Witness ==
  /\ IsCall("validateCircuit")
  /\ getTotalDailyProductionAh(nodes, Q(DEFAULT_SUN_HOURS)) = Q(20)
  /\ getTotalDailyConsumptionAh(nodes) = Q(40)
  /\ Cardinality(UnbalancedWarnings) = 1

----------------------------------------------------------------------------
(* Claims on the validator and the reachability search (checked under Spec) *)

ExistingIds == {nodes[i].id : i \in 1..Len(nodes)}

NodeById(id) == nodes[CHOOSE i \in 1..Len(nodes) : nodes[i].id = id]

Adjacent(a, b) ==
  \E k \in 1..Len(connections) :
    \/ connections[k].fromNodeId = a /\ connections[k].toNodeId = b
    \/ connections[k].fromNodeId = b /\ connections[k].toNodeId = a

\* the undirected connected component of S among the existing nodes
RECURSIVE Component(_)
Component(S) ==
  LET T == S \cup {b \in ExistingIds : \E a \in S : Adjacent(a, b)}
  IN  IF T = S THEN S ELSE Component(T)

\* some battery, solar, alternator or charger node lies in the component of id
Powered(id) ==
  /\ id \in ExistingIds
  /\ \E b \in Component({id}) :
       NodeById(b).type \in {"battery", "solar", "alternator", "charger"}

Findings == Range(ret.errors) \cup Range(ret.warnings)

\* C4: validateCircuit reports, in a finding that references the node, every
\* consumer from which no source-type node is reachable.
C4_ValidatorReportsUnpowered ==
  IsCall("validateCircuit")
    => \A i \in 1..Len(nodes) :
         (nodes[i].type = "consumer" /\ ~Powered(nodes[i].id))
           => \E f \in Findings :
                "nodeIds" \in DOMAIN f /\ nodes[i].id \in Range(f.nodeIds)

\* C5: the search ends after at most 1 + |connections| x |nodes| passes of its
\* loop, returns true exactly when a source-type node lies in the undirected
\* component of the start node, and findUnpoweredConsumers returns exactly the
\* consumers for which it returns false, in array order.
C5_ReachabilityExact ==
  /\ bfs.pc # "idle"
       => bfs.iterations + Len(bfs.queue) <= 1 + Len(connections) * Len(nodes)
  /\ bfs.pc = "done" => ret = Powered(call.nodeId)
  /\ IsCall("findUnpoweredConsumers")
       => ret = SelectSeq(nodes, LAMBDA n : n.type = "consumer" /\ ~Powered(n.id))

\* a consumer found powered through an intermediate node, after three passes
C5_Witness ==
  /\ bfs.pc = "done"
  /\ call.nodeId \in ExistingIds
  /\ NodeById(call.nodeId).type = "consumer"
  /\ ret = TRUE
  /\ bfs.iterations >= 3

IsAppendConnection ==
  /\ nodes' = nodes
  /\ Len(connections') = Len(connections) + 1
  /\ SubSeq(connections', 1, Len(connections)) = connections

\* C6: appending a connection (dangling and self-loop ones included) never
\* turns isNodeConnectedToSource from true to false, and never adds a node to
\* the result of findUnpoweredConsumers.
C6_EdgeInsertionMonotone ==
  [][ IsAppendConnection
        => /\ \A id \in NodeIds :
                isNodeConnectedToSource(id, nodes, connections)
                  => isNodeConnectedToSource(id, nodes', connections')
           /\ Range(findUnpoweredConsumers(nodes', connections'))
                \subseteq Range(findUnpoweredConsumers(nodes, connections)) ]_vars

\* a self-loop or dangling connection appended to a graph in which a consumer
\* reached a source, and still reaches it
C6_Witness ==
  /\ Len(connections) = 2
  /\ \/ connections[2].fromNodeId = connections[2].toNodeId
     \/ connections[2].toNodeId \notin ExistingIds
  /\ \E i \in 1..Len(nodes) :
       /\ nodes[i].type = "consumer"
       /\ connections[2].fromNodeId = nodes[i].id
       /\ isNodeConnectedToSource(nodes[i].id, nodes, SubSeq(connections, 1, 1))
       /\ isNodeConnectedToSource(nodes[i].id, nodes, connections)

\* the connections whose two endpoints exist and differ in voltage
Mismatched ==
  {k \in 1..Len(connections) :
     /\ connections[k].fromNodeId \in ExistingIds
     /\ connections[k].toNodeId \in ExistingIds
     /\ NodeById(connections[k].fromNodeId).voltage
          # NodeById(connections[k].toNodeId).voltage}

MismatchErrors(k) ==
  {i \in 1..Len(ret.errors) :
     ret.errors[i].type = "voltage_mismatch" /\ ret.errors[i].connectionId = k}

\* C8: validateCircuit emits exactly one voltage_mismatch error per connection
\* whose two existing endpoints differ in voltage, tagged [from id, to id] and
\* with the connection's id, none for any other connection, and isValid is
\* false whenever one is emitted.
C8_VoltageMismatchExact ==
  IsCall("validateCircuit")
    => /\ \A k \in 1..Len(connections) :
            IF k \in Mismatched
              THEN /\ Cardinality(MismatchErrors(k)) = 1
                   /\ \A i \in MismatchErrors(k) :
                        ret.errors[i].nodeIds
                          = <<connections[k].fromNodeId, connections[k].toNodeId>>
              ELSE MismatchErrors(k) = {}
       /\ \A i \in 1..Len(ret.errors) :
            ret.errors[i].type = "voltage_mismatch"
              => ret.errors[i].connectionId \in Mismatched
       /\ Mismatched # {} => ret.isValid = FALSE

\* a 12 V battery wired to a 24 V consumer, next to a dangling connection
C8_Witness ==
  /\ IsCall("validateCircuit")
  /\ \E k \in Mismatched :
       /\ NodeById(connections[k].fromNodeId).type = "battery"
       /\ NodeById(connections[k].fromNodeId).voltage = 12
       /\ NodeById(connections[k].toNodeId).type = "consumer"
       /\ NodeById(connections[k].toNodeId).voltage = 24
       /\ Cardinality(MismatchErrors(k)) = 1
  /\ \E k \in 1..Len(connections) : connections[k].toNodeId \notin ExistingIds
  /\ ret.isValid = FALSE

NoSourceErrors == {i \in 1..Len(ret.errors) : ret.errors[i].type = "no_source"}

\* C18: validateCircuit reports exactly one 'no_source' error when no node
\* is a battery, solar, alternator or charger nodes notwithstanding, and
\* none when some node is a battery.
C18_NoSourceIffNoBattery ==
  IsCall("validateCircuit")
    => /\ Cardinality(NoSourceErrors)
            = IF \E i \in 1..Len(nodes) : nodes[i].type = "battery" THEN 0 ELSE 1
       /\ NoSourceErrors # {} => ~ret.isValid

\* a solar panel wired to a consumer, no battery
C18_Witness ==
  /\ IsCall("validateCircuit")
  /\ \E i \in 1..Len(nodes) : nodes[i].type = "solar"
  /\ \E i \in 1..Len(nodes) : nodes[i].type = "consumer"
  /\ Len(connections) > 0
  /\ \A i \in 1..Len(nodes) : nodes[i].type # "battery"
  /\ Cardinality(NoSourceErrors) = 1

\* C26: in useProjectStore, from the empty project, after any sequence of addNode,
\* duplicateNode, moveNode, addConnection, removeNode and removeConnection, both
\* ends of every connection identify nodes of the project.
C26_EndpointsExist ==
  \A k \in 1..Len(connections) :
    /\ findNode(nodes, connections[k].fromNodeId) # 0
    /\ findNode(nodes, connections[k].toNodeId) # 0

\* removeNode has removed a node and a connection survives it
C26_Witness ==
  /\ IsCall("removeNode")
  /\ findNode(nodes, call.id) = 0
  /\ nodes # <<>>
  /\ connections # <<>>

\* a refused addConnection beside an existing connection
C26_Refused ==
  /\ IsCall("addConnection")
  /\ ret = [error |-> "Nodes not found for connection"]
  /\ connections # <<>>

\* C27: an auto-hide timer never hides a toast displayed by a later showToast
\* call: a toast shown at time t is taken down by a timer only once t + 3 s is
\* reached, also when the same message is shown twice less than 3 s apart.
C27_TimerKeepsLaterToast ==
  [][(IsCall("toastTimeout")' /\ toast # Null /\ toast' = Null)
       => now >= toast.shownAt + ToastDelay]_vars

\* the same, for toasts whose message no pending timer of an earlier call carries
C27_TimerKeepsOtherMessage ==
  [][(IsCall("toastTimeout")' /\ toast # Null /\ toast' = Null
        /\ \A k \in 1..Len(timers) :
             timers[k].message = toast.message => timers[k].due = toast.shownAt + ToastDelay)
       => now >= toast.shownAt + ToastDelay]_vars

\* C28: after any sequence of setSelection, addToSelection, removeFromSelection
\* and clearSelection, selection is null exactly when multiSelection is empty, the
\* id of a selection occurs in multiSelection, and no two entries of multiSelection
\* have the same id.
C28_SelectionConsistent ==
  /\ (selection = Null) <=> (multiSelection = <<>>)
  /\ selection # Null => \E k \in 1..Len(multiSelection) : multiSelection[k].id = selection.id
  /\ \A i, j \in 1..Len(multiSelection) :
       multiSelection[i].id = multiSelection[j].id => i = j

\* removeFromSelection has left two of three entries, the first of them selected
C28_Witness ==
  /\ IsCall("removeFromSelection")
  /\ Len(multiSelection) = 2
  /\ selection = multiSelection[1]
  /\ \A k \in 1..2 : multiSelection[k].id # call.id

VoltageDropWarnings == {i \in 1..Len(ret.warnings) : ret.warnings[i].type = "voltage_drop"}

\* the 'voltage_drop' warnings that name a connection
C29_OfConnection(id) ==
  {i \in VoltageDropWarnings :
     Has(ret.warnings[i], "connectionId") /\ ret.warnings[i].connectionId = id}

\* C29: every 'voltage_drop' warning of validateCircuit carries the connectionId
\* of a connection whose analysis has status 'warning', there is exactly one such
\* warning per such connection, and nothing else produces a 'voltage_drop' warning.
C29_VoltageDropOnlyForCables ==
  IsCall("validateCircuit")
    => LET analyses == analyzeAllCables(connections, nodes)
           dropping == {a.connectionId : a \in {b \in Range(analyses) : b.status = "warning"}}
       IN  /\ \A i \in VoltageDropWarnings :
                /\ Has(ret.warnings[i], "connectionId")
                /\ ret.warnings[i].connectionId \in dropping
           /\ \A id \in dropping : Cardinality(C29_OfConnection(id)) = 1

\* the part of C29 that concerns the warnings naming a connection
C29_PerCable ==
  IsCall("validateCircuit")
    => LET analyses == analyzeAllCables(connections, nodes)
           dropping == {a.connectionId : a \in {b \in Range(analyses) : b.status = "warning"}}
       IN  /\ \A i \in VoltageDropWarnings :
                Has(ret.warnings[i], "connectionId")
                  => ret.warnings[i].connectionId \in dropping
           /\ \A id \in dropping : Cardinality(C29_OfConnection(id)) = 1

OvercurrentErrors(id) ==
  {i \in 1..Len(ret.errors) :
     ret.errors[i].type = "overcurrent" /\ ret.errors[i].connectionId = id}

\* the connections of the project whose section the reference table does not list
OffTable ==
  {k \in 1..Len(connections) : connections[k].sectionMm2 \notin StandardSections}

\* the current analyzeAllCables infers for connection k: 0 when an end is missing
C30_Inferred(k) ==
  LET fromNode == nodeMapGet(nodes, connections[k].fromNodeId)
      toNode == nodeMapGet(nodes, connections[k].toNodeId)
  IN  IF fromNode = <<>> \/ toNode = <<>> THEN Zero
      ELSE inferCurrent(fromNode[1], toNode[1])

\* C30: for a connection whose sectionMm2 is not a section of the reference
\* table the analysis takes a rated capacity of 0: its status is 'overload'
\* exactly when the inferred current is above 0, and validateCircuit then
\* reports an overcurrent error for the cable and isValid = false.
C30_OffTableOverload ==
  /\ IsCall("analyzeAllCables")
       => \A k \in OffTable :
            (ret[k].status = "overload") <=> RGt(C30_Inferred(k), Zero)
  /\ IsCall("validateCircuit")
       => \A k \in OffTable :
            IF RGt(C30_Inferred(k), Zero)
              THEN ~ret.isValid /\ OvercurrentErrors(connections[k].id) # {}
              ELSE OvercurrentErrors(connections[k].id) = {}

\* two 3 mm2 cables in a project with a battery: the one from the battery to a
\* 10 A consumer is the only error, the one from the panel to the battery
\* carries no current and raises none
C30_Witness ==
  /\ IsCall("validateCircuit")
  /\ Len(connections) = 2
  /\ OffTable = {1, 2}
  /\ RGt(C30_Inferred(1), Zero)
  /\ C30_Inferred(2) = Zero
  /\ nodeMapGet(nodes, connections[2].fromNodeId) # <<>>
  /\ nodeMapGet(nodes, connections[2].toNodeId) # <<>>
  /\ ~ret.isValid
  /\ OvercurrentErrors(1) # {}
  /\ OvercurrentErrors(2) = {}

====
